---- MODULE Spec2Model ----
(***************************************************************************)
(* Model of the Account class of the Plivo Browser SDK                     *)
(* (src/unnamed/part_000): the connection / session lifecycle handlers     *)
(* attached to the SIP user agent, the login validation, the endpoint      *)
(* cursor, the admission of new RTC sessions and the network-change IP     *)
(* resolution retry.                                                       *)
(*                                                                         *)
(* Call sessions are objects on a heap, named by a number in UUIDs; the    *)
(* reference 0 is JavaScript's null.  Each handler is one action: the      *)
(* host runs handlers to completion on a single thread.  Asynchronous     *)
(* continuations (promise callbacks, timers) are actions of their own.     *)
(***************************************************************************)
EXTENDS Integers, Sequences, FiniteSets, TLC

\* ------------------------------------------------------------ bounds
\* Session objects that may be alive at once (heap size).
MaxCalls == 4
\* Longest configured endpoint list.
MaxServers == 3
\* Cap of the IP-resolution retry counter (the code has none).
MaxIpCount == 4
\* Attempt chains of the network-change flow alive at once (a fetchIPAddress
\* promise in flight or a retry timer pending).
MaxInFlight == 2
\* Longest X-Plivo-Jwt header value drawn from the alphabet.
MaxHeaderLen == 2
\* Cap of the attempts counted for the followed chain of the network-change
\* flow (the code has none).
MaxAttempts == 4

\* Cap of the re-INVITE timers scheduled in the specification that follows
\* them (the code has none).
MaxReinvites == 3

\* Cap of the telemetry-credential requests in flight in the specification
\* that follows them (the code has none).
MaxStatsFetches == 2

\* ------------------------------------------------- program constants
\* C.NUMBER_OF_SIMULTANEOUS_INCOMING_CALLS_ALLOWED (../constants); the value
\* is the ceiling the specification's scenarios use.
NUMBER_OF_SIMULTANEOUS_INCOMING_CALLS_ALLOWED == 2

Null == 0
UUIDs == 1..MaxCalls

VARIABLES
  \* ---- ActiveCallSet (fields of the client object `cs`)
  currentSession,              \* cs._currentSession: a session or Null
  callSession,                 \* cs.callSession
  callUUID,                    \* cs.callUUID
  callDirection,               \* cs.callDirection: "null", "incoming", "outgoing"
  incomingInvites,             \* keys of the cs.incomingInvites map
  allowMultipleIncomingCalls,  \* cs.options.allowMultipleIncomingCalls
  \* ---- session objects
  signalingState,              \* session.connection.signalingState; "none": no connection
  isEnded,                     \* session.isEnded()
  \* ---- what the last newRTCSession handler did
  lastRTC,
  \* ---- connection manager
  cs,          \* the other fields of the client object
  account,     \* the Account whose listeners are attached to cs.phone
  pending,     \* credentials of the Account whose login callback is queued
  urlIndex,    \* the module-level endpoint cursor (line 27)
  wsServers,   \* the configured endpoint list
  ipFetches,   \* fetchIPAddress promises of tiggerNetworkChangeEvent in flight
  ipTimers,    \* retry timers of tiggerNetworkChangeEvent that are pending
  lastEvt,     \* what the last connection handler did
  freshLogin,  \* a login has started a user agent that has not registered yet
  net,         \* cs.currentNetworkInfo and the resolutions that will write it
  \* ---- asynchronous continuations followed in the specifications that
  \* study them; elsewhere they are scheduled and left out
  watch,           \* one chain of attempts of tiggerNetworkChangeEvent
  reinviteTimers,  \* sessions of the pending timers of sendReInvite (173-184)
  statsFetches     \* validateCallStats promises of _onRegistered in flight

callVars == <<currentSession, callSession, callUUID, callDirection,
              incomingInvites, allowMultipleIncomingCalls,
              signalingState, isEnded, lastRTC>>

connVars == <<cs, account, pending, urlIndex, wsServers, ipFetches, ipTimers,
              lastEvt, freshLogin>>

auxVars == <<watch, reinviteTimers, statsFetches>>

vars == <<callVars, connVars, net, auxVars>>

NoTerminate == [status_code |-> 0, reason_phrase |-> ""]

NoRTC == [op |-> "none", originator |-> "none", session |-> Null,
          accepted |-> FALSE, terminate |-> NoTerminate, created |-> "none",
          preSession |-> Null, preStale |-> FALSE, prePending |-> 0,
          preInvites |-> {}, preEnded |-> {},
          postSession |-> Null, postInvites |-> {}, postCallSession |-> Null,
          postCallUUID |-> Null, postCallDirection |-> "null"]

\* ------------------------------------------------ _validateRTCSession
\* Lines 562-566: the primary session's connection exists and is closed.
IsStaleSession(cur) ==
  /\ cur # Null
  /\ signalingState[cur] # "none"
  /\ signalingState[cur] = "closed"

\* Lines 573-581: invites whose session has ended are deleted from the map.
PurgeEndedInvites_KeepsAll(invites) == invites

PurgeEndedInvites(invites) == {i \in invites : ~isEnded[i]}

\* Lines 582-587: the busy condition, on the state after self-heal and purge.
BusyCondition_IgnoresPrimary(cur, size) ==
  \/ (size # 0 /\ ~allowMultipleIncomingCalls)
  \/ size >= NUMBER_OF_SIMULTANEOUS_INCOMING_CALLS_ALLOWED

BusyCondition_IgnoresInvites(cur, size) ==
  \/ (cur # Null /\ ~allowMultipleIncomingCalls)
  \/ size >= NUMBER_OF_SIMULTANEOUS_INCOMING_CALLS_ALLOWED

BusyCondition_AlwaysBusyOnCall(cur, size) ==
  \/ (cur # Null \/ size # 0)
  \/ size >= NUMBER_OF_SIMULTANEOUS_INCOMING_CALLS_ALLOWED

BusyCondition_NoCeiling(cur, size) ==
  (cur # Null \/ size # 0) /\ ~allowMultipleIncomingCalls

BusyCondition(cur, size) ==
  \/ ((cur # Null \/ size # 0) /\ ~allowMultipleIncomingCalls)
  \/ size >= NUMBER_OF_SIMULTANEOUS_INCOMING_CALLS_ALLOWED

\* Lines 590-593: the options of the busy response.
BusyOptions_Decline == [status_code |-> 603, reason_phrase |-> "Decline"]

BusyOptions == [status_code |-> 486, reason_phrase |-> "Busy Here"]

\* Lines 567-571: the primary session after the stale check.
SelfHeal_Never(cur) == cur

SelfHeal(cur) == IF IsStaleSession(cur) THEN Null ELSE cur

\* Sessions the client still refers to.
Referenced == incomingInvites \cup (IF currentSession = Null THEN {} ELSE {currentSession})

\* Invites of the map whose session has not ended.
PendingInvites == {i \in incomingInvites : ~isEnded[i]}

\* ---------------------------------------------------- _onNewRTCSession
\* Lines 537-555 with _validateRTCSession (561-598) inlined.  `u` is the
\* session object carried by the event: a new object, not yet referenced.
\* createIncomingSession / createOutgoingSession are not part of the source
\* at hand: the inbound one files the invite in cs.incomingInvites under its
\* call UUID, the outbound one makes the session the primary session.
onNewRTCSession(originator, u) ==
  LET cur1   == SelfHeal(currentSession)
      healed == cur1 # currentSession
      inv1   == PurgeEndedInvites(incomingInvites)
      busy   == BusyCondition(cur1, Cardinality(inv1))
      pre    == [preSession |-> currentSession,
                 preStale   |-> IsStaleSession(currentSession),
                 prePending |-> Cardinality(PendingInvites),
                 preInvites |-> incomingInvites,
                 preEnded   |-> {i \in incomingInvites : isEnded[i]}]
      dropped == (incomingInvites \ inv1)
                   \cup (IF healed THEN {currentSession} ELSE {})
      cur2   == IF ~busy /\ originator = "local" THEN u ELSE cur1
      gone   == IF cur2 # cur1 /\ cur1 # Null THEN dropped \cup {cur1} ELSE dropped
      inv2   == IF ~busy /\ originator = "remote" THEN inv1 \cup {u} ELSE inv1
      outgoing == ~busy /\ originator = "local"
      post   == [postSession |-> cur2,
                 postInvites |-> inv2,
                 postCallSession |-> IF outgoing THEN u
                                     ELSE IF healed THEN Null ELSE callSession,
                 postCallUUID |-> IF outgoing THEN u
                                  ELSE IF healed THEN Null ELSE callUUID,
                 postCallDirection |-> IF outgoing THEN "outgoing"
                                       ELSE IF healed THEN "null" ELSE callDirection]
  IN
  /\ u \notin Referenced
  /\ isEnded[u] = FALSE /\ signalingState[u] = "none"
  /\ incomingInvites' = inv2
  /\ currentSession' = cur2
  /\ callSession' = post.postCallSession
  /\ callUUID' = post.postCallUUID
  /\ callDirection' = post.postCallDirection
  \* objects no longer referenced return to the pool
  /\ signalingState' = [s \in UUIDs |-> IF s \in gone THEN "none" ELSE signalingState[s]]
  /\ isEnded' = [s \in UUIDs |-> IF s \in gone THEN FALSE ELSE isEnded[s]]
  /\ lastRTC' = [op |-> "newRTCSession", originator |-> originator,
                 session |-> u, accepted |-> ~busy,
                 terminate |-> IF busy THEN BusyOptions ELSE NoTerminate,
                 created |-> IF busy THEN "none"
                             ELSE IF originator = "remote" THEN "incoming"
                             ELSE "outgoing"] @@ pre @@ post
  /\ UNCHANGED allowMultipleIncomingCalls

\* ------------------------------------------- call lifecycle (collaborators)
\* The session objects live in incomingCall / outgoingCall / the SIP library,
\* which are not part of the source at hand; these steps are what the
\* specification says of them ({No Active Call} -> {Call Active} -> {No
\* Active Call}, invites pending until answered or ended).

\* The media connection of a referenced session comes into being.
ConnectionCreated(u) ==
  /\ u \in Referenced
  /\ ~isEnded[u] /\ signalingState[u] = "none"
  /\ signalingState' = [signalingState EXCEPT ![u] = "stable"]
  /\ UNCHANGED <<currentSession, callSession, callUUID, callDirection,
                 incomingInvites, allowMultipleIncomingCalls, isEnded, lastRTC>>

\* A session ends and the teardown is incomplete: the client keeps its
\* reference ("Previous call did not end properly", "failed but not removed
\* properly").  The connection, if there is one, reaches "closed".
SessionEnded(u) ==
  /\ u \in Referenced
  /\ ~isEnded[u]
  /\ isEnded' = [isEnded EXCEPT ![u] = TRUE]
  /\ signalingState' = [signalingState EXCEPT
                          ![u] = IF @ = "none" THEN "none" ELSE "closed"]
  /\ UNCHANGED <<currentSession, callSession, callUUID, callDirection,
                 incomingInvites, allowMultipleIncomingCalls, lastRTC>>

\* A session ends (or has ended) and the client drops every reference to it.
CallTerminated(u) ==
  /\ u \in Referenced
  /\ incomingInvites' = incomingInvites \ {u}
  /\ currentSession' = IF currentSession = u THEN Null ELSE currentSession
  /\ callSession' = IF currentSession = u THEN Null ELSE callSession
  /\ callUUID' = IF currentSession = u THEN Null ELSE callUUID
  /\ callDirection' = IF currentSession = u THEN "null" ELSE callDirection
  /\ signalingState' = [signalingState EXCEPT ![u] = "none"]
  /\ isEnded' = [isEnded EXCEPT ![u] = FALSE]
  /\ UNCHANGED <<allowMultipleIncomingCalls, lastRTC>>

\* The host answers a pending invite: it becomes the primary session.
Answer(u) ==
  /\ u \in incomingInvites
  /\ ~isEnded[u]
  /\ currentSession = Null
  /\ currentSession' = u
  /\ callSession' = u
  /\ callUUID' = u
  /\ callDirection' = "incoming"
  /\ incomingInvites' = incomingInvites \ {u}
  /\ UNCHANGED <<allowMultipleIncomingCalls, signalingState, isEnded, lastRTC>>

\* =================================================== connection manager
\* JavaScript values of the credentials are modelled by their kind:
\* "undefined", "null", "empty" (the string of length 0), "text" (any other
\* string).
CredentialKinds == {"undefined", "null", "empty", "text"}

\* String.length of a credential that is a string.
StrLength(k) == IF k = "empty" THEN 0 ELSE 1

NoCredentials == [userName |-> "undefined", password |-> "undefined"]

\* Lines 107-118: a newly constructed Account.
NewAccount(c) ==
  [credentials |-> c, isPlivoSocketConnected |-> FALSE, fetchIpCount |-> 0,
   reinviteCounter |-> 0]

ConnectionState == [CONNECTED |-> "connected", DISCONNECTED |-> "disconnected"]

\* What a handler run has done, for the properties below.
NoEvt == [op |-> "none", ret |-> "none", emitted |-> <<>>,
          \* login
          credentials |-> NoCredentials, online |-> TRUE, onCall |-> FALSE,
          stopped |-> FALSE, queued |-> FALSE,
          \* login, disconnected
          uaCreated |-> 0, transportsCreated |-> 0, callbacks |-> 0,
          failed |-> "none", threw |-> FALSE, listeners |-> 0,
          retryTimers |-> 0, reinvites |-> 0, code |-> 0,
          \* connected
          timersCleared |-> 0,
          \* registered: keep-alive loop and telemetry transport
          preLoop |-> FALSE, loopCancelled |-> FALSE, loopStarted |-> "none",
          preStats |-> FALSE, statsDisconnected |-> 0, statsCreated |-> 0,
          \* re-INVITE timer
          session |-> Null, scheduledFor |-> Null, iceRestart |-> FALSE,
          \* unregistered, registrationFailed
          clearedOnLogout |-> FALSE, cause |-> FALSE, jwtErrorCode |-> 0,
          message |-> "none",
          ignore |-> FALSE, preUrlIndex |-> 0, postUrlIndex |-> 0,
          \* the cursor at each wsServers[urlIndex] of the run, in order
          cursors |-> <<>>,
          postSocket |-> "null",
          \* registered
          preFresh |-> FALSE, header |-> <<>>,
          \* network-change flow
          preCount |-> 0, postCount |-> 0, scheduled |-> FALSE, delay |-> 0,
          kind |-> "none", wrote |-> FALSE]

\* Number of times event e is in the sequence of emitted events.
RECURSIVE Count(_, _)
Count(seq, e) ==
  IF seq = <<>> THEN 0
  ELSE (IF Head(seq) = e THEN 1 ELSE 0) + Count(Tail(seq), e)

\* ------------------------------------------------------------ _validate
\* Lines 121-128: the credentials test.  "missing": the test is true;
\* "present": it is false; "throws": password is null and userName is a
\* non-empty string, so (password as string).length reads a property of null.
CredentialsCheck_NullPasswordMissing(c) ==
  IF \/ c.userName = "undefined"
     \/ c.password = "undefined"
     \/ c.userName = "null"
  THEN "missing"
  ELSE IF c.password = "null" THEN "missing" ELSE "present"

CredentialsCheck_UndefinedPasswordPasses(c) ==
  IF \/ c.userName = "undefined"
     \/ c.userName = "null"
  THEN "missing"
  ELSE IF c.password = "null"
       THEN (IF StrLength(c.userName) <= 0 THEN "missing" ELSE "throws")
       ELSE "present"

CredentialsCheck(c) ==
  IF \/ c.userName = "undefined"
     \/ c.password = "undefined"
     \/ c.userName = "null"
  THEN "missing"
  ELSE IF c.password = "null"
       THEN (IF StrLength(c.userName) <= 0 THEN "missing" ELSE "throws")
       ELSE "present"

\* Lines 120-166: the outcome of _validate for an Account with credentials c.
\*   "throws"                       a TypeError leaves the function
\*   "noCredentials" "onCall" "offline"   onLoginFailed is emitted, false returned
\*   "relogin"                      the callback is queued and returned
\*   "ok"                           true is returned
ValidateOutcome_SkipsCallCheck(c, online) ==
  LET k == CredentialsCheck(c) IN
  IF k = "throws" THEN "throws"
  ELSE IF k = "missing" THEN "noCredentials"
  ELSE IF ~online THEN "offline"
  ELSE IF cs.phone # "null" THEN "relogin"
  ELSE "ok"

ValidateOutcome(c, online) ==
  LET k == CredentialsCheck(c) IN
  IF k = "throws" THEN "throws"
  ELSE IF k = "missing" THEN "noCredentials"
  ELSE IF currentSession # Null THEN "onCall"
  ELSE IF ~online THEN "offline"
  ELSE IF cs.phone # "null" THEN "relogin"
  ELSE "ok"

\* -------------------------------------------------------- setupUAConfig
\* Lines 200-202: the cursor is brought back into the endpoint list.
WrapIndex_OffByOne(idx) == IF idx > Len(wsServers) THEN 0 ELSE idx

WrapIndex_Never(idx) == idx

WrapIndex(idx) == IF idx >= Len(wsServers) THEN 0 ELSE idx

\* wsServers[urlIndex]; past the end of the list JavaScript yields undefined.
EndpointAt(idx) == IF idx < Len(wsServers) THEN wsServers[idx + 1] ELSE "undefined"

\* Endpoints the SipLib.WebSocketInterface constructor rejects with a
\* TypeError: a string that is not a ws/wss URI, and undefined.
MalformedEndpoints == {"bad", "undefined"}

\* Lines 188-218: the socket of the new configuration targets the endpoint
\* at the wrapped cursor.  threw: line 204 has thrown, after line 189 has
\* set cs.plivoSocket to null and lines 200-202 have wrapped the cursor.
setupUAConfig(c, idx) ==
  LET endpoint == EndpointAt(WrapIndex(idx))
      threw == endpoint \in MalformedEndpoints
  IN [cs |-> [c EXCEPT !.plivoSocket = IF threw THEN "null" ELSE endpoint],
      urlIndex |-> WrapIndex(idx),
      threw |-> threw]

\* Lines 237-247: _create.  uaThrows: the SipLib.UA constructor throws.
\* setupUAConfig is called at line 238, before the try block: what it throws
\* leaves _create.
create(c, idx, uaThrows) ==
  LET cfg == setupUAConfig(c, idx) IN
  IF cfg.threw
  THEN [cs |-> cfg.cs, urlIndex |-> cfg.urlIndex, ok |-> FALSE,
        emitted |-> <<>>, threw |-> TRUE, failed |-> "config", listeners |-> 0,
        retryTimers |-> 0]
  ELSE IF uaThrows
  THEN [cs |-> cfg.cs, urlIndex |-> cfg.urlIndex, ok |-> FALSE,
        emitted |-> <<"onLoginFailed">>, threw |-> FALSE, failed |-> "ua",
        listeners |-> 0, retryTimers |-> 0]
  ELSE [cs |-> [cfg.cs EXCEPT !.phone = "created"], urlIndex |-> cfg.urlIndex,
        ok |-> TRUE, emitted |-> <<>>, threw |-> FALSE, failed |-> "none",
        listeners |-> 0, retryTimers |-> 0]

\* socketReconnectionRetry (../utils/networkManager) leaves the
\* reconnection-check timer running in cs.connectionRetryInterval.
socketReconnectionRetry(c) == [c EXCEPT !.connectionRetryInterval = TRUE]

\* Lines 220-235: _setupUserAccount.  retryTimers: socketReconnectionRetry
\* (line 232) has started the reconnection-check timer.
setupUserAccount(c, idx, uaThrows) ==
  LET r == create(c, idx, uaThrows) IN
  IF ~r.ok THEN r
  ELSE [r EXCEPT !.cs = [socketReconnectionRetry(@) EXCEPT !.phone = "started"],
                 !.listeners = 1, !.retryTimers = 1]

\* ---------------------------------------------------------------- login
\* Client.login is not part of the source at hand.  It constructs an
\* Account for the credentials, calls validate with a callback that runs
\* setupUserAccount, marks the login as called unless validation failed, and
\* runs setupUserAccount itself when validate returned true.
Login(c, online, uaThrows) ==
  LET v == ValidateOutcome(c, online)
      base == [NoEvt EXCEPT !.op = "login", !.credentials = c,
                            !.online = online,
                            !.onCall = (currentSession # Null),
                            !.preUrlIndex = urlIndex,
                            !.postUrlIndex = urlIndex,
                            !.postSocket = cs.plivoSocket]
      r == setupUserAccount([cs EXCEPT !.isLoginCalled = TRUE], urlIndex, uaThrows)
  IN
  CASE v = "throws" ->
         /\ lastEvt' = [base EXCEPT !.ret = "throws", !.threw = TRUE]
         /\ UNCHANGED <<cs, account, pending, urlIndex, freshLogin,
                        ipFetches, ipTimers>>
    [] v \in {"noCredentials", "onCall", "offline"} ->
         \* lines 129-131, 134-141, 145-152
         /\ lastEvt' = [base EXCEPT !.ret = "false",
                                    !.emitted = <<"onLoginFailed">>]
         /\ UNCHANGED <<cs, account, pending, urlIndex, freshLogin,
                        ipFetches, ipTimers>>
    [] v = "relogin" ->
         \* lines 155-164
         /\ cs' = [cs EXCEPT !.loginCallback = TRUE,
                             !.phone = "stopped",
                             !.connectionInfo =
                                [state |-> ConnectionState.DISCONNECTED,
                                 reason |-> "Relogin"],
                             !.isLoginCalled = TRUE]
         /\ pending' = c
         /\ lastEvt' = [base EXCEPT !.ret = "callback", !.stopped = TRUE,
                                    !.queued = TRUE]
         /\ UNCHANGED <<account, urlIndex, freshLogin, ipFetches, ipTimers>>
    [] v = "ok" ->
         \* line 165, then setupUserAccount
         /\ cs' = r.cs
         /\ urlIndex' = r.urlIndex
         /\ account' = IF r.ok THEN NewAccount(c) ELSE account
         /\ freshLogin' = (r.ok \/ freshLogin)
         /\ ipFetches' = IF r.ok THEN 0 ELSE ipFetches
         /\ ipTimers' = IF r.ok THEN 0 ELSE ipTimers
         /\ lastEvt' = [base EXCEPT !.ret = IF r.threw THEN "throws" ELSE "true",
                                    !.emitted = r.emitted,
                                    !.failed = r.failed,
                                    !.threw = r.threw,
                                    !.listeners = r.listeners,
                                    !.retryTimers = r.retryTimers,
                                    !.uaCreated = IF r.ok THEN 1 ELSE 0,
                                    !.cursors = <<r.urlIndex>>,
                                    !.postUrlIndex = r.urlIndex,
                                    !.postSocket = r.cs.plivoSocket]
         /\ UNCHANGED pending

\* ------------------------------------------------------ _onDisconnected
DisconnectCodes == {0, 1006}

\* evt.code.toString() for the codes of DisconnectCodes.
CodeString(code) == IF code = 1006 THEN "1006" ELSE "0"

\* Line 335: the cursor moves to the next endpoint.
AdvanceIndex_Stays(idx) == idx

AdvanceIndex(idx) == idx + 1

\* Line 333: the reconnection branch is taken unless the event carries the
\* ignoreReconnection flag.
ReconnectionBranch_Always(evt) == TRUE

ReconnectionBranch(evt) == ~evt.ignoreReconnection

\* Lines 168-186: sendReInvite; the number of re-INVITEs it schedules for a
\* client c.
sendReInvite(c) == IF currentSession # Null /\ c.phone # "null" THEN 1 ELSE 0

\* Lines 173-184: the 0 ms timer of sendReInvite fires.  The counter is
\* incremented (179), then the re-INVITE is sent on what cs._currentSession
\* holds now (180); the non-null assertion of line 180 tests nothing, and
\* reading .session of null throws a TypeError out of the timer callback.
\* reinviteTimers holds, oldest first, the primary session each pending
\* timer was scheduled for.
onReInviteTimer ==
  LET present == currentSession # Null IN
  /\ reinviteTimers # <<>>
  /\ reinviteTimers' = Tail(reinviteTimers)
  /\ account' = [account EXCEPT !.reinviteCounter = @ + 1]
  /\ lastEvt' = [NoEvt EXCEPT !.op = "reInvite",
                              !.ret = IF present THEN "sent" ELSE "throws",
                              !.threw = ~present,
                              !.onCall = present,
                              !.reinvites = IF present THEN 1 ELSE 0,
                              !.session = currentSession,
                              !.scheduledFor = Head(reinviteTimers),
                              !.iceRestart = present]
  /\ UNCHANGED <<cs, pending, urlIndex, freshLogin, ipFetches, ipTimers>>

\* Lines 317-342.  evt: [code, ignoreReconnection].  A queued login callback
\* (run at line 330) is setupUserAccount of the Account that queued it; the
\* rest of the handler goes on with the new cs.phone.
onDisconnected(evt, uaThrows) ==
  LET c1 == IF evt.code # 0
            THEN [cs EXCEPT !.connectionInfo =
                              [state |-> ConnectionState.DISCONNECTED,
                               reason |-> CodeString(evt.code)]]
            ELSE cs
      viaCb == c1.loginCallback
      r  == IF viaCb THEN setupUserAccount(c1, urlIndex, uaThrows)
            ELSE [cs |-> c1, urlIndex |-> urlIndex, ok |-> FALSE,
                  emitted |-> <<>>, threw |-> FALSE, failed |-> "none",
                  listeners |-> 0, retryTimers |-> 0]
      \* line 331 is reached unless the callback has thrown
      c2 == IF r.threw THEN r.cs ELSE [r.cs EXCEPT !.loginCallback = FALSE]
      reconnect == ~r.threw /\ ReconnectionBranch(evt)
      \* lines 335-339
      cfg == IF reconnect
             THEN setupUAConfig(socketReconnectionRetry(c2),
                                AdvanceIndex(r.urlIndex))
             ELSE [cs |-> c2, urlIndex |-> r.urlIndex, threw |-> FALSE]
      rebuilt == reconnect /\ ~cfg.threw
      c3 == IF rebuilt THEN [cfg.cs EXCEPT !.phone = "started"] ELSE cfg.cs
      swapped == viaCb /\ r.ok
  IN
  /\ cs.phone # "null"
  /\ cs' = c3
  /\ urlIndex' = cfg.urlIndex
  /\ account' = IF swapped THEN NewAccount(pending)
                ELSE [account EXCEPT !.isPlivoSocketConnected = FALSE]
  /\ pending' = IF r.threw THEN pending ELSE NoCredentials
  /\ freshLogin' = (swapped \/ freshLogin)
  /\ ipFetches' = IF swapped THEN 0 ELSE ipFetches
  /\ ipTimers' = IF swapped THEN 0 ELSE ipTimers
  /\ lastEvt' = [NoEvt EXCEPT !.op = "disconnected",
                              !.emitted = r.emitted,
                              !.ignore = evt.ignoreReconnection,
                              !.uaCreated = IF swapped THEN 1 ELSE 0,
                              !.transportsCreated = IF rebuilt THEN 1 ELSE 0,
                              !.callbacks = IF viaCb THEN 1 ELSE 0,
                              !.failed = r.failed,
                              !.threw = (r.threw \/ cfg.threw),
                              !.listeners = r.listeners,
                              \* lines 232 and 336
                              !.retryTimers = r.retryTimers
                                 + (IF reconnect THEN 1 ELSE 0),
                              \* line 340
                              !.reinvites = IF rebuilt THEN sendReInvite(c3) ELSE 0,
                              !.code = evt.code,
                              !.cursors =
                                 (IF viaCb THEN <<r.urlIndex>> ELSE <<>>)
                                 \o (IF reconnect THEN <<cfg.urlIndex>> ELSE <<>>),
                              !.preUrlIndex = urlIndex,
                              !.postUrlIndex = cfg.urlIndex,
                              !.postSocket = c3.plivoSocket]

\* ------------------------------------------- X-Plivo-Jwt header (364-367)
\* A header value is a sequence of one-character strings.  Results that are
\* not strings: undefined and NaN.  Numbers are kept as their decimal
\* digits, so that seconds * 1000 is exact.
Undefined == <<"undefined">>
NaN == <<"NaN">>
Digits == {"0", "1", "2", "3", "4", "5", "6", "7", "8", "9"}
WhiteSpace == {" "}

\* The part of s before the first sep: s.split(sep)[0].
RECURSIVE SplitHead(_, _)
SplitHead(s, sep) ==
  IF s = <<>> THEN <<>>
  ELSE IF Head(s) = sep THEN <<>>
  ELSE <<Head(s)>> \o SplitHead(Tail(s), sep)

\* The part of s after the first sep (sep occurs in s).
RECURSIVE AfterFirst(_, _)
AfterFirst(s, sep) ==
  IF Head(s) = sep THEN Tail(s) ELSE AfterFirst(Tail(s), sep)

Occurs(s, sep) == \E i \in 1..Len(s) : s[i] = sep

\* s.split(sep)[1]: undefined when sep does not occur in s.
SplitSecond(s, sep) ==
  IF Occurs(s, sep) THEN SplitHead(AfterFirst(s, sep), sep) ELSE Undefined

\* Line 365: raw.split(";")[0].split("=")[1]
ExpiryField_LastSegment(raw) ==
  LET RECURSIVE LastSeg(_)
      LastSeg(s) == IF Occurs(s, ";") THEN LastSeg(AfterFirst(s, ";")) ELSE s
  IN SplitSecond(LastSeg(raw), "=")

ExpiryField(raw) == SplitSecond(SplitHead(raw, ";"), "=")

RECURSIVE TrimLeft(_)
TrimLeft(s) ==
  IF s # <<>> /\ Head(s) \in WhiteSpace THEN TrimLeft(Tail(s)) ELSE s

RECURSIVE TrimRight(_)
TrimRight(s) ==
  IF s # <<>> /\ s[Len(s)] \in WhiteSpace
  THEN TrimRight(SubSeq(s, 1, Len(s) - 1)) ELSE s

RECURSIVE StripZeros(_)
StripZeros(d) ==
  IF Len(d) > 1 /\ Head(d) = "0" THEN StripZeros(Tail(d)) ELSE d

\* ToNumber of the operand of `*`: undefined is NaN, a string is trimmed,
\* the empty string is 0, a string of decimal digits is its value, anything
\* else over the alphabet of the model is NaN.
ToNumber(v) ==
  IF v = Undefined THEN NaN
  ELSE LET t == TrimRight(TrimLeft(v)) IN
       IF t = <<>> THEN <<"0">>
       ELSE IF \A i \in 1..Len(t) : t[i] \in Digits THEN StripZeros(t)
       ELSE NaN

\* Line 366: expiryTimeInEpoch * 1000, exact for the values of the model.
TimesThousand_NoScaling(n) == n

TimesThousand(n) ==
  IF n = NaN THEN NaN
  ELSE IF n = <<"0">> THEN n
  ELSE n \o <<"0", "0", "0">>

NoResponse == [hasJwt |-> FALSE, raw |-> <<>>]

\* -------------------------------------------------- network-change trigger
\* C.IP_ADDRESS_FETCH_RETRY_COUNT (../constants).
IP_ADDRESS_FETCH_RETRY_COUNT == 3

\* Lines 254-261: what the continuation does when no address was resolved.
\* "retry": another attempt is scheduled; "giveUp": the counter is reset.
RetryDecision_BelowCeiling(count) ==
  IF count < IP_ADDRESS_FETCH_RETRY_COUNT THEN "retry" ELSE "giveUp"

RetryDecision(count) ==
  IF count # IP_ADDRESS_FETCH_RETRY_COUNT THEN "retry" ELSE "giveUp"

\* Line 257: the delay of the retry timer, in ms.
RetryDelay(count) == count * 200

\* ------------------------------------------------------- fetchIPAddress
\* src/lib/stats/httpRequest.ts, lines 171-195.  What the HTTP request to the
\* address service comes back with:
\*   "ip"            status ok, a JSON body with a string ip
\*   "noIp"          status ok, a JSON body without a string ip
\*   "badBody"       status ok, a body that is empty or not JSON
\*   "notOk"         a status that is not ok
\*   "networkError"  fetch itself rejects
FetchResponses == {"ip", "noIp", "badBody", "notOk", "networkError"}

\* How the promise returned by fetchIPAddress settles: "address" (resolved
\* with a string, 182), "noAddress" (resolved with something else, 182),
\* "rejected" (184-186 after JSON.parse has thrown, 188-190), "pending"
\* (never settled: the chain on fetch has no catch, so when fetch rejects
\* neither resolve nor reject is called).
fetchIPAddress(response) ==
  CASE response = "ip" -> "address"
    [] response = "noIp" -> "noAddress"
    [] response \in {"badBody", "notOk"} -> "rejected"
    [] response = "networkError" -> "pending"

\* ------------------------------------------------ cs.currentNetworkInfo
\* The network snapshot and the fetchIPAddress promises whose continuations
\* write it (lines 293-307 and 382-392).  Of the requests in flight, latest
\* is the kind ("initial", "idle") of the one dispatched last, or "none";
\* older holds the kinds of the others ("idle" stands for one or more).
\* from tells which request wrote the snapshot: the one dispatched last
\* ("latest"), an earlier one ("older"), or none yet.
NoNet == [latest |-> "none", older |-> {}, latestWrote |-> FALSE,
          from |-> "none", ip |-> "", didFetchInitial |-> FALSE]

\* The snapshot of a client whose first connection has resolved its address.
SettledNet == [NoNet EXCEPT !.latestWrote = TRUE, !.from = "latest",
                            !.ip = "address", !.didFetchInitial = TRUE]

\* fetchIPAddress(...).then(...) is called: a request of the kind is in
\* flight, and it is the last one dispatched.
Dispatch(n, kind) ==
  [n EXCEPT !.older = IF n.latest # "none" THEN @ \cup {n.latest} ELSE @,
            !.latest = kind,
            !.latestWrote = FALSE,
            !.from = IF @ = "latest" THEN "older" ELSE @]

\* The continuation of a request writes cs.currentNetworkInfo whenever it
\* runs: lines 294-299 and 388-391 test nothing.  The initial request has a
\* catch handler that writes as well (300-307); the idle one has none.  No
\* handler runs for a promise that stays pending.
ContinuationWrites(kind, outcome) ==
  \/ outcome \in {"address", "noAddress"}
  \/ kind = "initial" /\ outcome = "rejected"

\* The HTTP request of a resolution completes.  which: "latest" or "older";
\* kind: its kind; outcome: how the promise settles; more: other older
\* requests of the kind stay in flight.
onNetInfoResolved(which, kind, outcome, more) ==
  LET isLatest == which = "latest"
      writes == ContinuationWrites(kind, outcome)
      ip == IF outcome = "address" THEN "address" ELSE ""
      n1 == IF isLatest
            THEN [net EXCEPT !.latest = "none", !.latestWrote = writes]
            ELSE [net EXCEPT !.older = IF more THEN @ ELSE @ \ {kind}]
  IN
  /\ IF isLatest THEN net.latest = kind ELSE kind \in net.older
  /\ more => (~isLatest /\ kind = "idle")
  /\ net' = IF writes
            THEN [n1 EXCEPT !.from = IF isLatest THEN "latest" ELSE "older",
                            !.ip = ip]
            ELSE n1
  /\ lastEvt' = [NoEvt EXCEPT !.op = "netInfoResolved", !.ret = outcome,
                              !.kind = kind, !.wrote = writes]
  /\ UNCHANGED <<cs, account, pending, urlIndex, freshLogin, ipFetches, ipTimers>>

\* ---------------------------------------------------------- _onConnected
\* Lines 285-289: the reconnection-check timer is cleared.
ClearRetryTimer_Keeps(c) == c

ClearRetryTimer(c) ==
  IF c.connectionRetryInterval THEN [c EXCEPT !.connectionRetryInterval = FALSE]
  ELSE c

\* Lines 281-311.
onConnected ==
  LET first == ~account.isPlivoSocketConnected
  IN
  /\ cs.phone # "null"
  /\ cs' = ClearRetryTimer(cs)
  /\ account' = [account EXCEPT !.isPlivoSocketConnected = TRUE]
  /\ net' = IF first /\ ~net.didFetchInitial
            THEN [Dispatch(net, "initial") EXCEPT !.didFetchInitial = TRUE]
            ELSE net
  /\ lastEvt' = [NoEvt EXCEPT !.op = "connected",
                              !.timersCleared = IF cs.connectionRetryInterval
                                                THEN 1 ELSE 0,
                              !.preUrlIndex = urlIndex,
                              !.postUrlIndex = urlIndex]
  /\ UNCHANGED <<pending, urlIndex, freshLogin, ipFetches, ipTimers>>

\* --------------------------------------------------------- _onRegistered
\* Lines 347-445.  res: [hasJwt, raw], the X-Plivo-Jwt header of the
\* response.
\* startPingPong (../utils/networkManager) leaves the keep-alive loop
\* running in cs.networkChangeInterval.
startPingPong(c) == [c EXCEPT !.networkChangeInterval = TRUE]

\* Lines 372-373: clearInterval, then the handle is set to null.
ClearKeepAlive(c) == [c EXCEPT !.networkChangeInterval = FALSE]

\* Lines 376-377: the interval of the loop restarted after a network change.
KeepAliveInterval_AlwaysIdle(session) == "idle"

KeepAliveInterval(session) == IF session # Null THEN "onCall" ELSE "idle"

\* Lines 409-411.
MarkLoggedIn_Never(c) == c

MarkLoggedIn(c) == IF ~c.isLoginCalled THEN [c EXCEPT !.isLoggedIn = TRUE] ELSE c

FreshLoginCondition_IgnoresLoggedIn(c) == c.isLoginCalled = TRUE

FreshLoginCondition(c) == c.isLoggedIn = FALSE /\ c.isLoginCalled = TRUE

\* hadStatsSocket: cs.statsSocket holds a transport when the handler runs
\* (it is created and released by code of ../stats, for each call).
onRegistered(res, hadStatsSocket) ==
  LET c1 == [cs EXCEPT !.loginCallback = FALSE,
                       !.connectionInfo = [state |-> ConnectionState.CONNECTED,
                                           reason |-> "registered"]]
      \* lines 364-367
      c2 == IF c1.isAccessToken /\ res.hasJwt
            THEN [c1 EXCEPT !.expiryTimeInEpoch =
                              TimesThousand(ToNumber(ExpiryField(res.raw)))]
            ELSE c1
      \* lines 368-407
      netChange == ~c2.isLoggedIn /\ ~c2.isLoginCalled
      idle      == netChange /\ currentSession = Null
      trigger   == netChange /\ currentSession # Null
      \* lines 372-379
      c2p == IF netChange THEN startPingPong(ClearKeepAlive(c2)) ELSE c2
      \* lines 409-413
      c3 == MarkLoggedIn(c2p)
      c4 == [c3 EXCEPT !.userName = account.credentials.userName,
                       !.password = account.credentials.password]
      \* lines 414-444
      fresh == FreshLoginCondition(c4)
      c5 == IF fresh
            THEN startPingPong([c4 EXCEPT !.isLoggedIn = TRUE,
                                          !.isLoginCalled = FALSE])
            ELSE c4
  IN
  /\ cs.phone # "null"
  /\ trigger => account.fetchIpCount < MaxIpCount
                 /\ ipFetches + ipTimers < MaxInFlight
  /\ cs' = IF idle THEN [c2p EXCEPT !.isLoggedIn = TRUE] ELSE c5
  /\ account' = IF trigger
                THEN [account EXCEPT !.fetchIpCount = @ + 1]   \* line 250
                ELSE account
  /\ ipFetches' = IF trigger THEN ipFetches + 1 ELSE ipFetches
  /\ pending' = NoCredentials
  /\ freshLogin' = FALSE
  /\ net' = IF idle THEN Dispatch(net, "idle") ELSE net    \* line 382
  /\ lastEvt' = [NoEvt EXCEPT !.op = "registered",
                              !.emitted = <<"onConnectionChange">>
                                 \o (IF ~idle /\ fresh THEN <<"onLogin">> ELSE <<>>),
                              !.ret = IF idle THEN "idleNetworkChange"
                                      ELSE IF trigger THEN "callNetworkChange"
                                      ELSE IF fresh THEN "freshLogin"
                                      ELSE "refresh",
                              !.header = IF res.hasJwt THEN res.raw ELSE Undefined,
                              !.preFresh = freshLogin,
                              !.preLoop = cs.networkChangeInterval,
                              !.loopCancelled = netChange,
                              !.loopStarted =
                                 IF netChange THEN KeepAliveInterval(currentSession)
                                 ELSE IF fresh THEN "idle"       \* line 424
                                 ELSE "none",
                              \* lines 399-404
                              !.preStats = (trigger /\ hadStatsSocket),
                              !.statsDisconnected =
                                 IF trigger /\ hadStatsSocket THEN 1 ELSE 0,
                              !.statsCreated = IF trigger THEN 1 ELSE 0,
                              !.preCount = account.fetchIpCount,
                              !.postCount = IF trigger THEN account.fetchIpCount + 1
                                            ELSE account.fetchIpCount]
  /\ UNCHANGED <<urlIndex, ipTimers>>

\* Lines 251-262: the HTTP request of an attempt completes.  outcome: how
\* the promise of fetchIPAddress settles; the continuation runs when it is
\* resolved ("address", "noAddress") and there is no handler for a
\* rejection.
\* Lines 252-253: sendNetworkChangeEvent runs when a string was resolved.
NetworkChangeEvents_Always(outcome) == <<"networkChange">>

NetworkChangeEvents(outcome) ==
  IF outcome = "address" THEN <<"networkChange">> ELSE <<>>

onIpResolved(outcome) ==
  LET count == account.fetchIpCount
      d == RetryDecision(count)
      retry == outcome = "noAddress" /\ d = "retry"
      giveUp == outcome = "noAddress" /\ d = "giveUp"
  IN
  /\ ipFetches > 0
  /\ ipFetches' = ipFetches - 1
  /\ ipTimers' = IF retry THEN ipTimers + 1 ELSE ipTimers
  /\ account' = IF giveUp THEN [account EXCEPT !.fetchIpCount = 0] ELSE account
  /\ lastEvt' = [NoEvt EXCEPT !.op = "ipResolved", !.ret = outcome,
                              !.emitted = NetworkChangeEvents(outcome),
                              !.scheduled = retry,
                              !.delay = IF retry THEN RetryDelay(count) ELSE 0,
                              !.preCount = count,
                              !.postCount = IF giveUp THEN 0 ELSE count]
  /\ UNCHANGED <<cs, pending, urlIndex, freshLogin>>

\* Lines 255-257 and 249-251: the retry timer fires and
\* tiggerNetworkChangeEvent runs again.
onIpRetryTimer ==
  /\ ipTimers > 0
  /\ account.fetchIpCount < MaxIpCount
  /\ ipTimers' = ipTimers - 1
  /\ ipFetches' = ipFetches + 1
  /\ account' = [account EXCEPT !.fetchIpCount = @ + 1]
  /\ lastEvt' = [NoEvt EXCEPT !.op = "ipRetry",
                              !.preCount = account.fetchIpCount,
                              !.postCount = account.fetchIpCount + 1]
  /\ UNCHANGED <<cs, pending, urlIndex, freshLogin>>

\* ----------------------------------------------------- validateCallStats
\* src/lib/stats/httpRequest.ts, lines 32-78.  What the request to the
\* stats API comes back with:
\*   "json"          status ok, a JSON body
\*   "emptyBody"     status ok, an empty body
\*   "badBody"       status ok, a non-empty body that is not JSON
\*   "notOk"         a status that is not ok
\*   "networkError"  fetch itself rejects
StatsResponses == {"json", "emptyBody", "badBody", "notOk", "networkError"}

\* How the promise returned by validateCallStats settles: "resolved" (67),
\* "rejected" (64, 72, 76), "pending" (never settled: JSON.parse throws at
\* line 66 inside the handler of response.text(), a promise that line 60
\* neither returns nor gives a catch).
validateCallStats(response) ==
  CASE response = "json" -> "resolved"
    [] response \in {"emptyBody", "notOk", "networkError"} -> "rejected"
    [] response = "badBody" -> "pending"

\* Lines 435-441: the request started by the fresh-login path completes.
\* The then-handler stores the key, the catch-handler sets it to null, and
\* neither runs for a promise that stays pending.  statsFetches counts the
\* requests in flight.
onCallStatsResolved(outcome) ==
  /\ statsFetches > 0
  /\ statsFetches' = statsFetches - 1
  /\ cs' = CASE outcome = "resolved" -> [cs EXCEPT !.callstatskey = "key"]
             [] outcome = "rejected" -> [cs EXCEPT !.callstatskey = "null"]
             [] OTHER -> cs
  /\ lastEvt' = [NoEvt EXCEPT !.op = "callStats", !.ret = outcome]
  /\ UNCHANGED <<account, pending, urlIndex, freshLogin, ipFetches, ipTimers>>

\* -------------------------------------------------------- _onUnRegistered
\* Lines 474-484: the cleanup of an explicit logout.
LogoutCleanup_KeepsFlag(c) ==
  [c EXCEPT !.userName = "null", !.password = "null",
            !.networkChangeInterval = FALSE]

LogoutCleanup(c) ==
  [c EXCEPT !.userName = "null", !.password = "null",
            !.networkChangeInterval = FALSE,
            !.isLogoutCalled = FALSE]

\* Lines 453-458: the connection state after an unregistered event.
UnregisteredState_Keeps(info) == info

UnregisteredState(info) ==
  IF info.state \in {"", ConnectionState.CONNECTED}
  THEN [state |-> ConnectionState.DISCONNECTED, reason |-> "unregistered"]
  ELSE info

\* Lines 451-486.  The tones and the disconnect timestamp are left out.
onUnRegistered ==
  LET c1 == [cs EXCEPT !.isLoggedIn = FALSE]
      c2 == [c1 EXCEPT !.connectionInfo = UnregisteredState(@)]
      logout == c2.isLogoutCalled
      c3 == IF logout THEN LogoutCleanup(c2) ELSE c2
  IN
  /\ cs.phone # "null"
  /\ cs' = c3
  /\ lastEvt' = [NoEvt EXCEPT !.op = "unregistered",
                              !.ret = IF logout THEN "logout" ELSE "transient",
                              !.clearedOnLogout = logout,
                              !.emitted = <<"onConnectionChange">>
                                 \o (IF logout THEN <<"onLogout">> ELSE <<>>)]
  /\ UNCHANGED <<account, pending, urlIndex, freshLogin, ipFetches, ipTimers>>

\* --------------------------------------------------------------- logout
\* Client.logout is not part of the source at hand.  It marks the logout as
\* requested and stops the user agent, which unregisters.
Logout ==
  /\ cs.phone # "null"
  /\ cs.isLoggedIn
  /\ ~cs.isLogoutCalled
  /\ cs' = [cs EXCEPT !.isLogoutCalled = TRUE, !.phone = "stopped"]
  /\ lastEvt' = [NoEvt EXCEPT !.op = "logout", !.stopped = TRUE]
  /\ UNCHANGED <<account, pending, urlIndex, freshLogin, ipFetches, ipTimers>>

\* --------------------------------------------------- _onRegistrationFailed
\* error: [cause (error.cause is truthy), jwtErrorCode (the number in the
\* X-Plivo-Jwt-Error-Code header; 0: the header is absent)].
JwtErrorCodes == {0, 401, 403}

\* Line 500: the error code; 401 when the response has no
\* X-Plivo-Jwt-Error-Code header.
ErrorCode_NoDefault(error) == error.jwtErrorCode

ErrorCode(error) == IF error.jwtErrorCode # 0 THEN error.jwtErrorCode ELSE 401

\* Lines 501-509: what onLoginFailed carries.  "cause": error.cause;
\* "errorString": cs.getErrorStringByErrorCodes(errorCode).
FailureMessage(error, generator) ==
  IF error.cause /\ ErrorCode(error) = 401 THEN "cause"
  ELSE IF generator THEN "RELOGIN_FAILED_INVALID_TOKEN"
  ELSE "errorString"

\* Line 493: the failure of a superseded attempt.
IsStaleFailure_Never(c) == FALSE

IsStaleFailure(c) ==
  c.connectionInfo.state = ConnectionState.DISCONNECTED /\ c.isLoggedIn

\* Lines 492-511.
onRegistrationFailed(error) ==
  LET stale == IsStaleFailure(cs)
      message == FailureMessage(error, cs.isAccessTokenGenerator)
      c1 == [cs EXCEPT !.isLoggedIn = FALSE, !.userName = "null",
                       !.password = "null"]
      \* lines 505-506
      c2 == IF message = "cause" THEN c1
            ELSE [c1 EXCEPT !.networkChangeInterval = FALSE]
  IN
  /\ cs.phone # "null"
  /\ cs' = IF stale THEN cs ELSE c2
  /\ lastEvt' = [NoEvt EXCEPT !.op = "registrationFailed",
                              !.ret = IF stale THEN "stale"
                                      ELSE IF message = "cause" THEN "cause"
                                      ELSE "errorString",
                              !.cause = error.cause,
                              !.jwtErrorCode = error.jwtErrorCode,
                              !.message = IF stale THEN "none" ELSE message,
                              !.emitted = IF stale THEN <<>> ELSE <<"onLoginFailed">>]
  /\ UNCHANGED <<account, pending, urlIndex, freshLogin, ipFetches, ipTimers>>

\* ======================================================== specifications
\* The configured endpoint lists: the first 1..MaxServers of these.
AllServers == <<"w0", "w1", "w2", "w3">>
ServerLists == {SubSeq(AllServers, 1, n) : n \in 1..MaxServers}

\* The client before the first login (Client constructor; not part of the
\* source at hand).
NewClient ==
  [phone |-> "null", plivoSocket |-> "null", loginCallback |-> FALSE,
   connectionInfo |-> [state |-> "", reason |-> ""],
   isLoggedIn |-> FALSE, isLoginCalled |-> FALSE, isLogoutCalled |-> FALSE,
   isAccessToken |-> FALSE, userName |-> "null", password |-> "null",
   expiryTimeInEpoch |-> <<"null">>,
   networkChangeInterval |-> FALSE, isAccessTokenGenerator |-> FALSE,
   connectionRetryInterval |-> FALSE, callstatskey |-> "null"]

TextCredentials == [userName |-> "text", password |-> "text"]

\* The client after a completed login with TextCredentials on the first
\* endpoint (reached by Login, then onRegistered).
LoggedInClient ==
  [NewClient EXCEPT !.phone = "started", !.plivoSocket = "w0",
                    !.connectionInfo = [state |-> ConnectionState.CONNECTED,
                                        reason |-> "registered"],
                    !.isLoggedIn = TRUE,
                    !.userName = "text", !.password = "text",
                    !.networkChangeInterval = TRUE]

\* No chain is followed, no re-INVITE timer is pending, no telemetry
\* credentials are being fetched.
NoWatch == [phase |-> "none", last |-> -1, mixed |-> FALSE, attempts |-> 0,
            outcome |-> "none"]

InitAux ==
  /\ watch = NoWatch
  /\ reinviteTimers = <<>>
  /\ statsFetches = 0

InitCalls ==
  /\ currentSession = Null
  /\ callSession = Null
  /\ callUUID = Null
  /\ callDirection = "null"
  /\ incomingInvites = {}
  /\ signalingState = [s \in UUIDs |-> "none"]
  /\ isEnded = [s \in UUIDs |-> FALSE]
  /\ lastRTC = NoRTC

InitAccount ==
  /\ urlIndex = 0                               \* line 27
  /\ account = NewAccount(NoCredentials)
  /\ pending = NoCredentials
  /\ ipFetches = 0
  /\ ipTimers = 0
  /\ freshLogin = FALSE
  /\ lastEvt = NoEvt
  /\ net = NoNet

\* --- Spec: admission of calls, on a client that is logged in.
Init ==
  /\ allowMultipleIncomingCalls \in BOOLEAN
  /\ InitCalls
  /\ InitAux
  /\ wsServers = SubSeq(AllServers, 1, 1)
  /\ cs = LoggedInClient
  /\ urlIndex = 0
  /\ account = NewAccount(TextCredentials)
  /\ pending = NoCredentials
  /\ ipFetches = 0
  /\ ipTimers = 0
  /\ freshLogin = FALSE
  /\ lastEvt = NoEvt
  /\ net = SettledNet

Originators == {"remote", "local"}

\* The event's session is a new object: the first one not in use.
FreeSessions == UUIDs \ Referenced
NewSession == CHOOSE u \in FreeSessions : \A v \in FreeSessions : u <= v

NewRTCSession ==
  /\ cs.phone # "null"
  /\ FreeSessions # {}
  /\ \E o \in Originators : onNewRTCSession(o, NewSession)
  /\ UNCHANGED <<connVars, net, auxVars>>

\* An outgoing call is placed (newRTCSession with a local originator).
OutgoingCallStep ==
  /\ cs.phone # "null"
  /\ FreeSessions # {}
  /\ onNewRTCSession("local", NewSession)
  /\ UNCHANGED <<connVars, net, auxVars>>

ConnectionCreatedStep ==
  /\ \E u \in UUIDs : ConnectionCreated(u)
  /\ UNCHANGED <<connVars, net, auxVars>>

SessionEndedStep ==
  /\ \E u \in UUIDs : SessionEnded(u)
  /\ UNCHANGED <<connVars, net, auxVars>>

CallTerminatedStep ==
  /\ \E u \in UUIDs : CallTerminated(u)
  /\ UNCHANGED <<connVars, net, auxVars>>

AnswerStep ==
  /\ \E u \in UUIDs : Answer(u)
  /\ UNCHANGED <<connVars, net, auxVars>>

NextCalls ==
  \/ NewRTCSession
  \/ ConnectionCreatedStep
  \/ SessionEndedStep
  \/ CallTerminatedStep
  \/ AnswerStep

Next == NextCalls

Spec == Init /\ [][Next]_vars

\* Credentials of the logins of the lifecycle specifications: accepted,
\* rejected, and the pair on which the credentials test throws.
ConnCredentials ==
  {TextCredentials,
   [userName |-> "undefined", password |-> "text"],
   [userName |-> "text", password |-> "null"]}

AllCredentials == [userName : CredentialKinds, password : CredentialKinds]

LoginStep ==
  /\ \E c \in ConnCredentials, online \in BOOLEAN, uaThrows \in BOOLEAN :
       Login(c, online, uaThrows)
  /\ UNCHANGED <<callVars, wsServers, net, auxVars>>

LoginAnyStep ==
  /\ \E c \in AllCredentials, online \in BOOLEAN, uaThrows \in BOOLEAN :
       Login(c, online, uaThrows)
  /\ UNCHANGED <<callVars, wsServers, net, auxVars>>

DisconnectedStep ==
  /\ \E code \in DisconnectCodes, ignore \in BOOLEAN, uaThrows \in BOOLEAN :
       onDisconnected([code |-> code, ignoreReconnection |-> ignore], uaThrows)
  /\ UNCHANGED <<callVars, wsServers, net, auxVars>>

RegisteredStep ==
  /\ \E hadStatsSocket \in BOOLEAN : onRegistered(NoResponse, hadStatsSocket)
  /\ UNCHANGED <<callVars, wsServers, auxVars>>

UnRegisteredStep ==
  /\ onUnRegistered
  /\ UNCHANGED <<callVars, wsServers, net, auxVars>>

RegistrationFailedStep ==
  /\ \E cause \in BOOLEAN, code \in JwtErrorCodes :
       onRegistrationFailed([cause |-> cause, jwtErrorCode |-> code])
  /\ UNCHANGED <<callVars, wsServers, net, auxVars>>

IpResolvedStep ==
  /\ \E response \in FetchResponses : onIpResolved(fetchIPAddress(response))
  /\ UNCHANGED <<callVars, wsServers, net, auxVars>>

IpRetryTimerStep ==
  /\ onIpRetryTimer
  /\ UNCHANGED <<callVars, wsServers, net, auxVars>>

\* --- SpecFailover: logins and disconnects of one client, over every
\* configured endpoint list.
InitFailover ==
  /\ allowMultipleIncomingCalls = FALSE
  /\ InitCalls
  /\ InitAux
  /\ wsServers \in ServerLists
  /\ cs = NewClient
  /\ InitAccount

NextFailover ==
  \/ LoginStep
  \/ DisconnectedStep

SpecFailover == InitFailover /\ [][NextFailover]_vars

\* --- SpecReconfig: logins and disconnects of one client whose host
\* replaces the configured endpoint list (options.registrationDomainSocket,
\* read at lines 192-198 each time a configuration is built) between them.
Reconfigure(servers) ==
  /\ servers # wsServers
  /\ wsServers' = servers
  /\ lastEvt' = [NoEvt EXCEPT !.op = "reconfigure", !.preUrlIndex = urlIndex,
                              !.postUrlIndex = urlIndex]
  /\ UNCHANGED <<cs, account, pending, urlIndex, freshLogin, ipFetches, ipTimers>>

ReconfigureStep ==
  /\ \E servers \in ServerLists : Reconfigure(servers)
  /\ UNCHANGED <<callVars, net, auxVars>>

NextReconfig ==
  \/ LoginStep
  \/ DisconnectedStep
  \/ ReconfigureStep

SpecReconfig == InitFailover /\ [][NextReconfig]_vars

\* --- SpecReconnect: logins of one client whose transport connects and
\* disconnects, over every configured endpoint list.
ConnectedStep ==
  /\ onConnected
  /\ UNCHANGED <<callVars, wsServers, auxVars>>

NextReconnect ==
  \/ LoginStep
  \/ DisconnectedStep
  \/ ConnectedStep

SpecReconnect == InitFailover /\ [][NextReconnect]_vars

\* --- SpecReinvite: a logged-in client that makes and ends calls while its
\* transport disconnects; the 0 ms timers of sendReInvite are followed.
DisconnectedCallStep ==
  /\ account.reinviteCounter + Len(reinviteTimers) < MaxReinvites
  /\ \E code \in DisconnectCodes, ignore \in BOOLEAN :
       onDisconnected([code |-> code, ignoreReconnection |-> ignore], FALSE)
  /\ reinviteTimers' = IF lastEvt'.reinvites = 1
                       THEN Append(reinviteTimers, currentSession)
                       ELSE reinviteTimers
  /\ UNCHANGED <<callVars, wsServers, net, watch, statsFetches>>

ReInviteTimerStep ==
  /\ onReInviteTimer
  /\ UNCHANGED <<callVars, wsServers, net, watch, statsFetches>>

InitReinvite ==
  /\ allowMultipleIncomingCalls = FALSE
  /\ InitCalls
  /\ InitAux
  /\ wsServers \in ServerLists
  /\ cs = LoggedInClient
  /\ urlIndex = 0
  /\ account = NewAccount(TextCredentials)
  /\ pending = NoCredentials
  /\ ipFetches = 0
  /\ ipTimers = 0
  /\ freshLogin = FALSE
  /\ lastEvt = NoEvt
  /\ net = SettledNet

NextReinvite ==
  \/ DisconnectedCallStep
  \/ ReInviteTimerStep
  \/ OutgoingCallStep
  \/ CallTerminatedStep

SpecReinvite == InitReinvite /\ [][NextReinvite]_vars

\* --- SpecCreate: logins and disconnects of one client whose configured
\* endpoint list may hold an entry that is not a WebSocket URI.
MixedServerLists ==
  {<<"w0", "w1">>, <<"bad">>, <<"w0", "bad">>, <<"bad", "w1">>}

InitCreate ==
  /\ allowMultipleIncomingCalls = FALSE
  /\ InitCalls
  /\ InitAux
  /\ wsServers \in MixedServerLists
  /\ cs = NewClient
  /\ InitAccount

NextCreate ==
  \/ LoginStep
  \/ DisconnectedStep

SpecCreate == InitCreate /\ [][NextCreate]_vars

\* --- SpecLogin: login validation over every kind of credentials, with and
\* without a user agent and a call.
InitLogin ==
  /\ allowMultipleIncomingCalls = FALSE
  /\ InitCalls
  /\ InitAux
  /\ wsServers = SubSeq(AllServers, 1, 1)
  /\ cs = NewClient
  /\ InitAccount

NextLogin ==
  \/ LoginAnyStep
  \/ DisconnectedStep
  \/ OutgoingCallStep
  \/ CallTerminatedStep

SpecLogin == InitLogin /\ [][NextLogin]_vars

\* --- SpecStats: logins and registrations of one client; the requests for
\* the telemetry credentials started by the fresh-login path are followed.
RegisteredStatsStep ==
  /\ statsFetches < MaxStatsFetches
  /\ \E hadStatsSocket \in BOOLEAN : onRegistered(NoResponse, hadStatsSocket)
  /\ statsFetches' = IF lastEvt'.ret = "freshLogin"        \* line 435
                     THEN statsFetches + 1 ELSE statsFetches
  /\ UNCHANGED <<callVars, wsServers, watch, reinviteTimers>>

CallStatsResolvedStep ==
  /\ \E response \in StatsResponses :
       onCallStatsResolved(validateCallStats(response))
  /\ UNCHANGED <<callVars, wsServers, net, watch, reinviteTimers>>

NextStats ==
  \/ LoginStep
  \/ DisconnectedStep
  \/ RegisteredStatsStep
  \/ UnRegisteredStep
  \/ CallStatsResolvedStep

SpecStats == InitLogin /\ [][NextStats]_vars

\* --- SpecConn: the registration lifecycle of one client from construction,
\* with one endpoint and one call at a time.
InitConn == InitLogin

NextConn ==
  \/ LoginStep
  \/ DisconnectedStep
  \/ RegisteredStep
  \/ UnRegisteredStep
  \/ RegistrationFailedStep
  \/ OutgoingCallStep
  \/ CallTerminatedStep

SpecConn == InitConn /\ [][NextConn]_vars

\* --- SpecNet: the network-change flow of a client that is logged in and on
\* a call: registrations lost and regained, resolutions and retry timers.
InitNet ==
  /\ allowMultipleIncomingCalls = FALSE
  /\ InitCalls
  /\ InitAux
  /\ wsServers = SubSeq(AllServers, 1, 1)
  /\ cs = LoggedInClient
  /\ urlIndex = 0
  /\ account = NewAccount(TextCredentials)
  /\ pending = NoCredentials
  /\ ipFetches = 0
  /\ ipTimers = 0
  /\ freshLogin = FALSE
  /\ lastEvt = NoEvt
  /\ net = SettledNet

NextNet ==
  \/ RegisteredStep
  \/ UnRegisteredStep
  \/ IpResolvedStep
  \/ IpRetryTimerStep
  \/ NewRTCSession
  \/ CallTerminatedStep

SpecNet == InitNet /\ [][NextNet]_vars

\* --- SpecBackoff: the network-change flow of SpecNet, with one chain of
\* attempts followed from its trigger to its end.  watch.phase tells where
\* the followed chain is ("fetch": its HTTP request is out; "timer": its
\* retry timer is pending; "none": no chain is followed), last is the delay
\* of its latest retry timer (-1: none yet), attempts the number of its
\* attempts, mixed whether another chain has been alive beside it, and
\* outcome how the chain followed last has ended ("emitted", "gaveUp",
\* "dropped": a promise that was rejected or stays pending).
ChainsAlive == ipFetches + ipTimers

\* Line 406: a registered event may start the chain that is followed.
RegisteredWatchStep ==
  /\ \E hadStatsSocket \in BOOLEAN : onRegistered(NoResponse, hadStatsSocket)
  /\ \E follow \in BOOLEAN :
       watch' = IF lastEvt'.ret # "callNetworkChange" THEN watch
                ELSE IF watch.phase # "none" THEN [watch EXCEPT !.mixed = TRUE]
                ELSE IF follow
                THEN [phase |-> "fetch", last |-> -1, mixed |-> ChainsAlive > 0,
                      attempts |-> 1, outcome |-> "none"]
                ELSE watch
  /\ UNCHANGED <<callVars, wsServers, reinviteTimers, statsFetches>>

\* Lines 251-262 for the followed chain.
WatchedResolvedStep ==
  /\ watch.phase = "fetch"
  /\ \E response \in FetchResponses : onIpResolved(fetchIPAddress(response))
  /\ watch' = IF lastEvt'.scheduled
              THEN [watch EXCEPT !.phase = "timer", !.last = lastEvt'.delay]
              ELSE [watch EXCEPT !.phase = "none",
                                 !.outcome =
                                    CASE lastEvt'.ret = "address" -> "emitted"
                                      [] lastEvt'.ret = "noAddress" -> "gaveUp"
                                      [] OTHER -> "dropped"]
  /\ UNCHANGED <<callVars, wsServers, net, reinviteTimers, statsFetches>>

\* Lines 251-262 for a chain that is not followed.
OtherResolvedStep ==
  /\ ipFetches > (IF watch.phase = "fetch" THEN 1 ELSE 0)
  /\ \E response \in FetchResponses : onIpResolved(fetchIPAddress(response))
  /\ UNCHANGED <<callVars, wsServers, net, auxVars>>

\* Lines 255-257 and 249-251 for the followed chain.
WatchedRetryStep ==
  /\ watch.phase = "timer"
  /\ watch.attempts < MaxAttempts
  /\ onIpRetryTimer
  /\ watch' = [watch EXCEPT !.phase = "fetch", !.attempts = @ + 1]
  /\ UNCHANGED <<callVars, wsServers, net, reinviteTimers, statsFetches>>

OtherRetryStep ==
  /\ ipTimers > (IF watch.phase = "timer" THEN 1 ELSE 0)
  /\ onIpRetryTimer
  /\ UNCHANGED <<callVars, wsServers, net, auxVars>>

NextBackoff ==
  \/ RegisteredWatchStep
  \/ UnRegisteredStep
  \/ WatchedResolvedStep
  \/ OtherResolvedStep
  \/ WatchedRetryStep
  \/ OtherRetryStep
  \/ OutgoingCallStep
  \/ CallTerminatedStep

SpecBackoff == InitNet /\ [][NextBackoff]_vars

\* The host's event loop completes every HTTP request and fires every
\* timer: the followed chain is not left waiting for ever.
SpecBackoffLive ==
  /\ SpecBackoff
  /\ WF_vars(WatchedResolvedStep)
  /\ WF_vars(WatchedRetryStep)

\* --- SpecTeardown: the registration events, disconnects and logouts of a
\* logged-in client, with and without the access-token generator.
LogoutStep ==
  /\ Logout
  /\ UNCHANGED <<callVars, wsServers, net, auxVars>>

InitTeardown ==
  /\ allowMultipleIncomingCalls = FALSE
  /\ InitCalls
  /\ InitAux
  /\ wsServers = SubSeq(AllServers, 1, 2)
  /\ cs \in {[LoggedInClient EXCEPT !.isAccessTokenGenerator = g] : g \in BOOLEAN}
  /\ urlIndex = 0
  /\ account = NewAccount(TextCredentials)
  /\ pending = NoCredentials
  /\ ipFetches = 0
  /\ ipTimers = 0
  /\ freshLogin = FALSE
  /\ lastEvt = NoEvt
  /\ net = SettledNet

NextTeardown ==
  \/ LoginStep
  \/ LogoutStep
  \/ DisconnectedStep
  \/ RegisteredStep
  \/ UnRegisteredStep
  \/ RegistrationFailedStep

SpecTeardown == InitTeardown /\ [][NextTeardown]_vars

\* --- SpecRace: a client that logs in, connects, registers, loses and
\* regains its registration while idle, with the address resolutions
\* completing in any order.
NetInfoResolvedStep ==
  /\ \E which \in {"latest", "older"}, kind \in {"initial", "idle"},
        response \in FetchResponses, more \in BOOLEAN :
       onNetInfoResolved(which, kind, fetchIPAddress(response), more)
  /\ UNCHANGED <<callVars, wsServers, auxVars>>

InitRace == InitLogin

NextRace ==
  \/ LoginStep
  \/ ConnectedStep
  \/ RegisteredStep
  \/ UnRegisteredStep
  \/ NetInfoResolvedStep

SpecRace == InitRace /\ [][NextRace]_vars

\* The HTTP request of the initial resolution completes.
InitialResolvedStep ==
  /\ \E which \in {"latest", "older"}, response \in FetchResponses :
       onNetInfoResolved(which, "initial", fetchIPAddress(response), FALSE)
  /\ UNCHANGED <<callVars, wsServers, auxVars>>

\* The browser completes every HTTP request, with a response or an error.
SpecRaceLive == SpecRace /\ WF_vars(InitialResolvedStep)

\* --- SpecJwt: registrations of a logged-in client whose responses carry
\* an X-Plivo-Jwt header, in access-token mode and outside it.
HeaderAlphabet == {"a", ";", "=", " ", "0", "1"}

RECURSIVE HeadersOfLength(_)
HeadersOfLength(n) ==
  IF n = 0 THEN {<<>>}
  ELSE {<<ch>> \o h : ch \in HeaderAlphabet, h \in HeadersOfLength(n - 1)}

\* "abc; exp=1700000000"
ScenarioHeader ==
  <<"a", "b", "c", ";", " ", "e", "x", "p", "=",
    "1", "7", "0", "0", "0", "0", "0", "0", "0", "0">>

\* "exp=1700000000; abc"
ExpFirstHeader ==
  <<"e", "x", "p", "=", "1", "7", "0", "0", "0", "0", "0", "0", "0", "0",
    ";", " ", "a", "b", "c">>

\* "a=10", "a=01;a", "a= 1 ", "a=1=0", "a=1a", "a;a=1"
ExampleHeaders ==
  { <<"a", "=", "1", "0">>,
    <<"a", "=", "0", "1", ";", "a">>,
    <<"a", "=", " ", "1", " ">>,
    <<"a", "=", "1", "=", "0">>,
    <<"a", "=", "1", "a">>,
    <<"a", ";", "a", "=", "1">> }

JwtHeaders ==
  {ScenarioHeader, ExpFirstHeader} \cup ExampleHeaders
    \cup UNION {HeadersOfLength(n) : n \in 0..MaxHeaderLen}

JwtResponses == {NoResponse} \cup {[hasJwt |-> TRUE, raw |-> h] : h \in JwtHeaders}

InitJwt ==
  /\ allowMultipleIncomingCalls = FALSE
  /\ InitCalls
  /\ InitAux
  /\ wsServers = SubSeq(AllServers, 1, 1)
  /\ cs \in {[LoggedInClient EXCEPT !.isAccessToken = t] : t \in BOOLEAN}
  /\ urlIndex = 0
  /\ account = NewAccount(TextCredentials)
  /\ pending = NoCredentials
  /\ ipFetches = 0
  /\ ipTimers = 0
  /\ freshLogin = FALSE
  /\ lastEvt = NoEvt
  /\ net = SettledNet

\* No call is made here: cs.statsSocket holds nothing.
RegisteredJwtStep ==
  /\ \E res \in JwtResponses : onRegistered(res, FALSE)
  /\ UNCHANGED <<callVars, wsServers, auxVars>>

NextJwt ==
  \/ RegisteredJwtStep
  \/ UnRegisteredStep

SpecJwt == InitJwt /\ [][NextJwt]_vars

\* ============================================================ claims
\* Calls that are live: a primary session that is not stale, and every
\* pending invite whose session has not ended.
LiveCalls ==
  (IF currentSession # Null /\ ~IsStaleSession(currentSession) THEN 1 ELSE 0)
    + Cardinality(PendingInvites)

Handled == lastRTC.op = "newRTCSession"

\* C1: with multiplexing disabled the number of live admitted calls (a
\* non-stale primary session plus the pending invites whose session has not
\* ended) never exceeds one.
C1_AtMostOneLiveCall ==
  ~allowMultipleIncomingCalls => LiveCalls <= 1

\* C1 witness: multiplexing disabled, one invite pending, and a further
\* newRTCSession event has been turned away.
C1_Witness ==
  /\ ~allowMultipleIncomingCalls
  /\ Handled /\ ~lastRTC.accepted
  /\ currentSession = Null
  /\ Cardinality(PendingInvites) = 1

\* C2: a newRTCSession event that arrives while a primary session is active
\* (connection not closed) and multiplexing is disabled is terminated with
\* 486 "Busy Here", creates no inbound or outbound session, and leaves the
\* primary session reference as it was.
C2_BusyWhenPrimaryActive ==
  (/\ Handled
   /\ lastRTC.preSession # Null /\ ~lastRTC.preStale
   /\ ~allowMultipleIncomingCalls)
  => /\ ~lastRTC.accepted
     /\ lastRTC.terminate = [status_code |-> 486, reason_phrase |-> "Busy Here"]
     /\ lastRTC.created = "none"
     /\ lastRTC.session \notin lastRTC.postInvites
     /\ lastRTC.postInvites \subseteq lastRTC.preInvites
     /\ lastRTC.postSession = lastRTC.preSession

\* C2 witness: the event was handled with an active primary session and
\* multiplexing disabled.
C2_Witness ==
  /\ Handled
  /\ lastRTC.preSession # Null /\ ~lastRTC.preStale
  /\ ~allowMultipleIncomingCalls
  /\ lastRTC.terminate.status_code = 486

\* C3: an inbound newRTCSession event that arrives while a primary session
\* is active, multiplexing is enabled and fewer invites than the ceiling are
\* pending is accepted: no busy response, and an inbound session is made.
C3_AcceptedWhenMultiplexing ==
  (/\ Handled /\ lastRTC.originator = "remote"
   /\ lastRTC.preSession # Null /\ ~lastRTC.preStale
   /\ allowMultipleIncomingCalls
   /\ lastRTC.prePending < NUMBER_OF_SIMULTANEOUS_INCOMING_CALLS_ALLOWED)
  => /\ lastRTC.accepted
     /\ lastRTC.terminate = NoTerminate
     /\ lastRTC.created = "incoming"
     /\ lastRTC.session \in lastRTC.postInvites
     /\ lastRTC.postSession = lastRTC.preSession

\* C3 witness: a second call was admitted beside an active primary session
\* and a pending invite.
C3_Witness ==
  /\ Handled /\ lastRTC.originator = "remote"
  /\ lastRTC.preSession # Null /\ ~lastRTC.preStale
  /\ allowMultipleIncomingCalls
  /\ lastRTC.prePending = 1
  /\ lastRTC.accepted

\* C4: when the primary session's connection is closed as the event arrives,
\* the primary session, call session, call UUID and call direction are
\* cleared before the admission decision: the decision is the one taken
\* with no primary session, so with no pending invite the call is accepted
\* even when multiplexing is disabled.
C4_StaleClearedBeforeDecision ==
  (Handled /\ lastRTC.preStale)
  => /\ lastRTC.postSession # lastRTC.preSession
     /\ lastRTC.created # "outgoing"
          => /\ lastRTC.postSession = Null
             /\ lastRTC.postCallSession = Null
             /\ lastRTC.postCallUUID = Null
             /\ lastRTC.postCallDirection = "null"
     /\ lastRTC.accepted
          <=> ~(\/ (lastRTC.prePending # 0 /\ ~allowMultipleIncomingCalls)
                \/ lastRTC.prePending
                     >= NUMBER_OF_SIMULTANEOUS_INCOMING_CALLS_ALLOWED)
     /\ lastRTC.prePending = 0 => lastRTC.accepted

\* C4 witness: a call was accepted over a stale primary session with
\* multiplexing disabled.
C4_Witness ==
  /\ Handled /\ lastRTC.preStale
  /\ ~allowMultipleIncomingCalls
  /\ lastRTC.prePending = 0
  /\ lastRTC.accepted
  /\ lastRTC.originator = "remote"

\* C5 as claimed: with no primary session, multiplexing disabled, one pending
\* invite that has not ended and a ceiling of 2, a new inbound request is
\* accepted.
C5_Claimed_AcceptedBesidePendingInvite ==
  (/\ Handled /\ lastRTC.originator = "remote"
   /\ lastRTC.preSession = Null
   /\ ~allowMultipleIncomingCalls
   /\ lastRTC.prePending = 1
   /\ NUMBER_OF_SIMULTANEOUS_INCOMING_CALLS_ALLOWED = 2)
  => lastRTC.accepted /\ lastRTC.terminate.status_code # 486

\* C5 amended: with no primary session, one pending invite that has not
\* ended and the ceiling not reached, a new inbound request is answered with
\* 486 "Busy Here" when multiplexing is disabled, and accepted when it is
\* enabled.
C5_PendingInviteIsBusyUnlessMultiplexing ==
  (/\ Handled /\ lastRTC.originator = "remote"
   /\ lastRTC.preSession = Null
   /\ lastRTC.prePending = 1
   /\ 1 < NUMBER_OF_SIMULTANEOUS_INCOMING_CALLS_ALLOWED)
  => /\ lastRTC.accepted <=> allowMultipleIncomingCalls
     /\ ~allowMultipleIncomingCalls
          => /\ lastRTC.terminate = [status_code |-> 486, reason_phrase |-> "Busy Here"]
             /\ lastRTC.created = "none"
             /\ lastRTC.postInvites \subseteq lastRTC.preInvites
             /\ Cardinality(lastRTC.postInvites) = 1

\* C5 witness: the scenario's state, and the request was turned away.
C5_Witness ==
  /\ Handled /\ lastRTC.originator = "remote"
  /\ lastRTC.preSession = Null
  /\ ~allowMultipleIncomingCalls
  /\ lastRTC.prePending = 1
  /\ lastRTC.terminate.status_code = 486
  /\ Cardinality(PendingInvites) = 1

\* C6: after a disconnected event without the ignoreReconnection flag the
\* endpoint cursor is (cursor before + 1) mod the number of endpoints, and
\* the socket of the rebuilt transport targets the endpoint at that cursor.
C6_CursorAdvancesModulo ==
  (lastEvt.op = "disconnected" /\ ~lastEvt.ignore)
  => /\ lastEvt.postUrlIndex = (lastEvt.preUrlIndex + 1) % Len(wsServers)
     /\ lastEvt.postSocket = wsServers[lastEvt.postUrlIndex + 1]
     /\ lastEvt.transportsCreated = 1

\* C6 witness: three endpoints, and a second disconnect in a row has moved
\* the cursor from 1 to 2 (the first one moved it from 0 to 1).
C6_Witness ==
  /\ Len(wsServers) = 3
  /\ lastEvt.op = "disconnected" /\ ~lastEvt.ignore
  /\ lastEvt.preUrlIndex = 1
  /\ urlIndex = 2
  /\ cs.plivoSocket = "w2"

\* C7 as claimed: login validation returns false and emits onLoginFailed
\* exactly once when the username or the password is undefined, when a
\* primary session exists, or when the platform is offline; no transport is
\* constructed, none is stopped, and no callback is queued.
C7_Claimed_LoginRejected ==
  (/\ lastEvt.op = "login"
   /\ \/ lastEvt.credentials.userName = "undefined"
      \/ lastEvt.credentials.password = "undefined"
      \/ lastEvt.onCall
      \/ ~lastEvt.online)
  => /\ lastEvt.ret = "false"
     /\ Count(lastEvt.emitted, "onLoginFailed") = 1
     /\ lastEvt.uaCreated = 0
     /\ ~lastEvt.stopped
     /\ ~lastEvt.queued

\* C8 as claimed: a registered event emits onLogin exactly once when it is
\* the first registration of a user agent started by a login, and never
\* otherwise (re-registrations, reconnections).
C8_Claimed_OneOnLoginPerFreshLogin ==
  lastEvt.op = "registered"
  => Count(lastEvt.emitted, "onLogin") = (IF lastEvt.preFresh THEN 1 ELSE 0)

\* C9 as claimed: the IP-resolution retry counter never exceeds
\* IP_ADDRESS_FETCH_RETRY_COUNT, and a failure at the ceiling resets it to
\* 0 and schedules nothing.
C9_Claimed_RetryCounterBounded ==
  /\ account.fetchIpCount <= IP_ADDRESS_FETCH_RETRY_COUNT
  /\ (/\ lastEvt.op = "ipResolved" /\ lastEvt.ret = "noAddress"
      /\ lastEvt.preCount = IP_ADDRESS_FETCH_RETRY_COUNT)
     => lastEvt.postCount = 0 /\ ~lastEvt.scheduled

\* The registered event stored an expiry from header h.
StoredFrom(h) ==
  /\ lastEvt.op = "registered"
  /\ cs.isAccessToken
  /\ lastEvt.header = h

\* 1700000000000
ScenarioMillis ==
  <<"1", "7", "0", "0", "0", "0", "0", "0", "0", "0", "0", "0", "0">>

\* C10 as claimed: the header value "abc; exp=1700000000" gives a stored
\* expiry of 1700000000000 ms.
C10_Claimed_ScenarioExpiry ==
  StoredFrom(ScenarioHeader) => cs.expiryTimeInEpoch = ScenarioMillis

\* Seconds d (decimal digits) as milliseconds.
Millis(d) ==
  IF \A i \in 1..Len(d) : d[i] = "0" THEN <<"0">>
  ELSE LET first == CHOOSE i \in 1..Len(d) :
                      d[i] # "0" /\ \A j \in 1..(i - 1) : d[j] = "0"
       IN SubSeq(d, first, Len(d)) \o <<"0", "0", "0">>

\* C10 amended: the stored expiry is 1000 times the seconds that follow the
\* first "=" of the first ";"-delimited segment of the header value:
\* "exp=1700000000; abc" gives 1700000000000 ms.  A first segment without
\* "=", as in "abc; exp=1700000000", gives NaN.
C10_ExpiryFromFirstSegment ==
  /\ StoredFrom(ExpFirstHeader) => cs.expiryTimeInEpoch = ScenarioMillis
  /\ StoredFrom(ScenarioHeader) => cs.expiryTimeInEpoch = NaN
  /\ LET h == lastEvt.header
     IN \A k \in 1..Len(h) : \A e \in (k + 1)..(Len(h) + 1) :
          (/\ StoredFrom(h)
           /\ h # Undefined
           /\ h[k] = "="
           /\ \A m \in 1..(k - 1) : h[m] \notin {";", "="}
           /\ e = Len(h) + 1 \/ h[e] \in {";", "="}
           /\ e > k + 1
           /\ \A m \in (k + 1)..(e - 1) : h[m] \in Digits)
          => cs.expiryTimeInEpoch = Millis(SubSeq(h, k + 1, e - 1))
  /\ LET h == lastEvt.header
     IN (/\ StoredFrom(h)
         /\ h # Undefined
         /\ \A m \in 1..Len(h) : h[m] = "=" => \E j \in 1..(m - 1) : h[j] = ";")
        => cs.expiryTimeInEpoch = NaN

\* C10 witness: the expiry was stored from "exp=1700000000; abc".
C10_Witness ==
  /\ StoredFrom(ExpFirstHeader)
  /\ cs.expiryTimeInEpoch = ScenarioMillis

\* C11 as claimed: a login validated while a transport exists stops it and
\* queues the callback, and a queued callback goes away only by being
\* invoked, once, in the handler of the disconnected event.
C11_Claimed_CallbackRunsOnce ==
  [][/\ (lastEvt'.op = "login" /\ lastEvt'.ret = "callback")
        => (lastEvt'.stopped /\ lastEvt'.queued /\ cs'.loginCallback)
     /\ (cs.loginCallback /\ ~cs'.loginCallback)
        => (lastEvt'.op = "disconnected" /\ lastEvt'.callbacks = 1)]_vars

\* C12 as claimed: one handler run builds and starts at most one transport;
\* a disconnected event that runs the queued login callback does not go on
\* to create a second one in its reconnection branch.
C12_Claimed_OneTransportPerHandler ==
  lastEvt.op \in {"login", "disconnected"}
  => lastEvt.uaCreated + lastEvt.transportsCreated <= 1

\* C13 as claimed: every step that changes the connection state (state or
\* reason) emits onConnectionChange.
C13_Claimed_EveryChangeNotified ==
  [][cs'.connectionInfo # cs.connectionInfo
     => Count(lastEvt'.emitted, "onConnectionChange") >= 1]_vars

\* C14 as claimed: the connection state changes only in the handlers of the
\* disconnected, registered and unregistered events.
C14_Claimed_OnlyEventHandlersWrite ==
  [][cs'.connectionInfo # cs.connectionInfo
     => lastEvt'.op \in {"disconnected", "registered", "unregistered"}]_vars

\* C15 as claimed: when the construction of the transport fails in a handler
\* (in setupUAConfig or in the user agent constructor), no exception leaves
\* the handler, onLoginFailed is emitted exactly once, no listeners are
\* attached, and the handler neither starts a transport nor builds another.
C15_Claimed_ConstructionFailureCaught ==
  lastEvt.failed # "none"
  => /\ ~lastEvt.threw
     /\ Count(lastEvt.emitted, "onLoginFailed") = 1
     /\ lastEvt.listeners = 0
     /\ lastEvt.uaCreated = 0
     /\ lastEvt.transportsCreated = 0

\* A registrationFailed event has been handled and was not ignored as stale.
FailureHandled == lastEvt.op = "registrationFailed" /\ lastEvt.ret # "stale"

\* C16 as claimed: such an event logs the client out, clears the stored
\* credentials and emits one onLoginFailed that carries the raw cause if and
\* only if the response has an X-Plivo-Jwt-Error-Code header equal to 401;
\* otherwise the keep-alive loop is cancelled and the error string (the
\* fixed message with the access-token generator) is emitted.
C16_Claimed_CauseIffJwt401Present ==
  FailureHandled
  => /\ ~cs.isLoggedIn /\ cs.userName = "null" /\ cs.password = "null"
     /\ lastEvt.emitted = <<"onLoginFailed">>
     /\ lastEvt.message = "cause" <=> lastEvt.jwtErrorCode = 401
     /\ lastEvt.message # "cause"
        => /\ ~cs.networkChangeInterval
           /\ lastEvt.message = IF cs.isAccessTokenGenerator
                                THEN "RELOGIN_FAILED_INVALID_TOKEN"
                                ELSE "errorString"

\* C16 amended: the raw cause is emitted if and only if the failure has a
\* cause and the error code is 401, where a response without an
\* X-Plivo-Jwt-Error-Code header counts as 401; otherwise the keep-alive
\* loop is cancelled and the error string (the fixed message with the
\* access-token generator) is emitted.
C16_CauseIffCodeOrDefault401 ==
  FailureHandled
  => /\ ~cs.isLoggedIn /\ cs.userName = "null" /\ cs.password = "null"
     /\ lastEvt.emitted = <<"onLoginFailed">>
     /\ lastEvt.message = "cause"
        <=> (lastEvt.cause /\ lastEvt.jwtErrorCode \in {0, 401})
     /\ lastEvt.message # "cause"
        => /\ ~cs.networkChangeInterval
           /\ lastEvt.message = IF cs.isAccessTokenGenerator
                                THEN "RELOGIN_FAILED_INVALID_TOKEN"
                                ELSE "errorString"

\* C16 witness: a failure with a cause and no X-Plivo-Jwt-Error-Code header
\* has surfaced the raw cause.
C16_Witness ==
  /\ FailureHandled
  /\ lastEvt.cause /\ lastEvt.jwtErrorCode = 0
  /\ lastEvt.message = "cause"

\* C17: the unregistered event that follows an explicit logout request emits
\* exactly one onLogout, clears the stored credentials, cancels the
\* keep-alive loop, runs the logout-cleanup hook and clears the request; an
\* unregistered event with no request pending emits no onLogout.  The
\* request is clear after every unregistered event, so one request gives one
\* onLogout.
C17_LogoutCleansUpOnce ==
  lastEvt.op = "unregistered"
  => /\ ~cs.isLogoutCalled
     /\ IF lastEvt.ret = "logout"
        THEN /\ Count(lastEvt.emitted, "onLogout") = 1
             /\ cs.userName = "null" /\ cs.password = "null"
             /\ ~cs.networkChangeInterval
             /\ lastEvt.clearedOnLogout
        ELSE /\ Count(lastEvt.emitted, "onLogout") = 0
             /\ ~lastEvt.clearedOnLogout

\* C17 witness: a logout was requested with the keep-alive loop running
\* and the unregistered event has completed it.
C17_Witness ==
  /\ lastEvt.op = "unregistered"
  /\ lastEvt.ret = "logout"
  /\ lastEvt.emitted = <<"onConnectionChange", "onLogout">>
  /\ ~cs.isLoggedIn

\* C20 as claimed: after a disconnected event, after the unregistered event
\* of an explicit logout and after a registration failure that was not
\* ignored, no keep-alive loop is running.
C20_Claimed_KeepAliveCancelled ==
  (\/ lastEvt.op = "disconnected"
   \/ lastEvt.op = "unregistered" /\ lastEvt.ret = "logout"
   \/ FailureHandled)
  => ~cs.networkChangeInterval

\* The attempt chains of the network-change flow that are alive: each has a
\* resolution in flight or a retry timer pending.
LiveChains == ipFetches + ipTimers

\* C18: a chain of attempts is started only by a network-change trigger, one
\* per trigger.  A resolution that succeeds emits the network-change event
\* once and ends its chain, so no trigger emits twice; a resolution that
\* does not succeed emits nothing, and one that gives up or is rejected ends
\* its chain without scheduling anything, so nothing is emitted for that
\* trigger afterwards.
C18_OneEventPerTrigger ==
  [][/\ LiveChains' > LiveChains
        => /\ lastEvt'.op = "registered" /\ lastEvt'.ret = "callNetworkChange"
           /\ LiveChains' = LiveChains + 1
     /\ ipFetches' < ipFetches
        => /\ lastEvt'.op = "ipResolved"
           /\ lastEvt'.ret = "address"
              => /\ lastEvt'.emitted = <<"networkChange">>
                 /\ LiveChains' = LiveChains - 1
           /\ lastEvt'.ret # "address"
              => /\ lastEvt'.emitted = <<>>
                 /\ LiveChains' = IF lastEvt'.scheduled THEN LiveChains
                                  ELSE LiveChains - 1
     /\ ipFetches' >= ipFetches
        => (lastEvt' = lastEvt \/ Count(lastEvt'.emitted, "networkChange") = 0)]_vars

\* C18 witness: a resolution made with the counter at 2 or more has
\* succeeded and emitted the event, leaving no chain alive.
C18_Witness ==
  /\ lastEvt.op = "ipResolved"
  /\ lastEvt.ret = "address"
  /\ lastEvt.preCount >= 2
  /\ lastEvt.emitted = <<"networkChange">>
  /\ LiveChains = 0

\* C19 as claimed: once no resolution is in flight and the one dispatched
\* last has delivered its result, the stored network info is that result.
C19_Claimed_LaterDispatchedWins ==
  (net.latest = "none" /\ net.older = {} /\ net.latestWrote)
  => net.from = "latest"

\* C21 as claimed: outside access-token mode, login validation returns
\* false, emits onLoginFailed and does not throw whenever the username or
\* the password is null or the empty string.
C21_Claimed_NullOrEmptyRejected ==
  (/\ lastEvt.op = "login"
   /\ \/ lastEvt.credentials.userName \in {"null", "empty"}
      \/ lastEvt.credentials.password \in {"null", "empty"})
  => /\ lastEvt.ret = "false"
     /\ lastEvt.emitted = <<"onLoginFailed">>
     /\ ~lastEvt.threw

\* C22: every newRTCSession event, inbound or outbound, is rejected with 486
\* "Busy Here" if and only if, after the stale-session self-heal and the
\* purge of ended invites, ((a primary session or a pending invite exists)
\* and multiplexing is disabled) or the pending invites are at or above the
\* ceiling; otherwise it is accepted and an inbound session (originator
\* remote) or an outbound one (originator local) is made.
C22_RejectedIffBusy ==
  Handled
  => LET cur  == IF lastRTC.preStale THEN Null ELSE lastRTC.preSession
         size == Cardinality(lastRTC.preInvites \ lastRTC.preEnded)
         busy == \/ ((cur # Null \/ size # 0) /\ ~allowMultipleIncomingCalls)
                 \/ size >= NUMBER_OF_SIMULTANEOUS_INCOMING_CALLS_ALLOWED
     IN /\ ~lastRTC.accepted <=> busy
        /\ ~lastRTC.accepted
             => /\ lastRTC.terminate = [status_code |-> 486,
                                        reason_phrase |-> "Busy Here"]
                /\ lastRTC.created = "none"
                /\ lastRTC.session \notin lastRTC.postInvites
                /\ lastRTC.postSession # lastRTC.session
        /\ lastRTC.accepted
             => /\ lastRTC.terminate = NoTerminate
                /\ lastRTC.created = IF lastRTC.originator = "remote"
                                     THEN "incoming" ELSE "outgoing"
                /\ lastRTC.originator = "remote"
                     => lastRTC.session \in lastRTC.postInvites
                /\ lastRTC.originator = "local"
                     => lastRTC.postSession = lastRTC.session

\* C22 witness: with multiplexing enabled and no primary session, an
\* outbound session was turned away because the pending invites were at the
\* ceiling.
C22_Witness ==
  /\ Handled /\ lastRTC.originator = "local"
  /\ allowMultipleIncomingCalls
  /\ lastRTC.preSession = Null
  /\ Cardinality(lastRTC.preInvites \ lastRTC.preEnded)
       = NUMBER_OF_SIMULTANEOUS_INCOMING_CALLS_ALLOWED
  /\ lastRTC.terminate.status_code = 486

\* C23: with multiplexing enabled or disabled, the number of pending inbound
\* invites whose session has not ended never exceeds the ceiling.
C23_PendingInvitesWithinCeiling ==
  Cardinality(PendingInvites) <= NUMBER_OF_SIMULTANEOUS_INCOMING_CALLS_ALLOWED

\* C23 witness: beside a primary session, the pending invites are at the
\* ceiling and a further inbound session has been turned away.
C23_Witness ==
  /\ Handled /\ lastRTC.originator = "remote" /\ ~lastRTC.accepted
  /\ currentSession # Null
  /\ Cardinality(PendingInvites) = NUMBER_OF_SIMULTANEOUS_INCOMING_CALLS_ALLOWED

\* C24: after the admission validation of a newRTCSession event the invite
\* map holds no invite whose session had ended and still holds every invite
\* whose session had not; the decision is taken on the purged map, so ended
\* invites do not count towards it.
C24_EndedInvitesPurgedFirst ==
  Handled
  => LET kept == lastRTC.preInvites \ lastRTC.preEnded
         cur  == IF lastRTC.preStale THEN Null ELSE lastRTC.preSession
     IN /\ lastRTC.postInvites \ {lastRTC.session} = kept
        /\ lastRTC.postInvites \cap lastRTC.preEnded = {}
        /\ (/\ cur = Null \/ allowMultipleIncomingCalls
            /\ kept = {} \/ allowMultipleIncomingCalls
            /\ Cardinality(kept) < NUMBER_OF_SIMULTANEOUS_INCOMING_CALLS_ALLOWED)
           => lastRTC.accepted

\* C24 witness: the map was at the ceiling with one invite ended; the ended
\* one was purged and the new inbound session was accepted.
C24_Witness ==
  /\ Handled /\ lastRTC.originator = "remote"
  /\ Cardinality(lastRTC.preInvites) = NUMBER_OF_SIMULTANEOUS_INCOMING_CALLS_ALLOWED
  /\ Cardinality(lastRTC.preEnded) = 1
  /\ lastRTC.accepted
  /\ lastRTC.postInvites \cap lastRTC.preEnded = {}

C26_Claimed_DisconnectedAfterEveryDisconnect ==
  lastEvt.op = "disconnected"
  => cs.connectionInfo = [state |-> ConnectionState.DISCONNECTED,
                          reason |-> CodeString(lastEvt.code)]

\* C27: after every registered event the pending login callback is cleared,
\* the connection state is CONNECTED with reason "registered", one
\* onConnectionChange has been emitted and the client is marked logged in.
C27_RegisteredMarksConnected ==
  lastEvt.op = "registered"
  => /\ ~cs.loginCallback
     /\ cs.connectionInfo = [state |-> ConnectionState.CONNECTED,
                             reason |-> "registered"]
     /\ Count(lastEvt.emitted, "onConnectionChange") = 1
     /\ Head(lastEvt.emitted) = "onConnectionChange"
     /\ cs.isLoggedIn

\* C27 witness: a registered event has been handled on a client that was
\* logged in and had a login in flight, the case in which neither line 409
\* nor line 415 writes the flag.
C27_Witness ==
  /\ lastEvt.op = "registered" /\ lastEvt.ret = "refresh"
  /\ cs.isLoginCalled
  /\ cs.isLoggedIn /\ ~cs.loginCallback

\* C28: an unregistered event that is not the result of an explicit logout
\* request marks the client logged out and leaves the connection state
\* DISCONNECTED; the stored credentials, the keep-alive loop and the
\* logout-requested flag are as before, no onLogout is emitted and the
\* logout-cleanup hook is not invoked.
C28_TransientUnregisterKeepsSession ==
  [][(lastEvt'.op = "unregistered" /\ ~cs.isLogoutCalled)
     => /\ ~cs'.isLoggedIn
        /\ cs'.connectionInfo.state = ConnectionState.DISCONNECTED
        /\ cs'.userName = cs.userName /\ cs'.password = cs.password
        /\ cs'.networkChangeInterval = cs.networkChangeInterval
        /\ cs'.isLogoutCalled = cs.isLogoutCalled
        /\ Count(lastEvt'.emitted, "onLogout") = 0
        /\ ~lastEvt'.clearedOnLogout]_vars

\* C28 witness: a registered client with its keep-alive loop running has
\* lost its registration without a logout request.
C28_Witness ==
  /\ lastEvt.op = "unregistered" /\ lastEvt.ret = "transient"
  /\ cs.connectionInfo = [state |-> ConnectionState.DISCONNECTED,
                          reason |-> "unregistered"]
  /\ cs.userName = "text" /\ cs.password = "text"
  /\ cs.networkChangeInterval
  /\ ~cs.isLoggedIn

\* C29: a registrationFailed event received while the connection state is
\* DISCONNECTED and the client is still marked logged in changes no state
\* (login flag, credentials, connection state, keep-alive loop) and emits no
\* notification.
C29_StaleFailureIgnored ==
  [][(/\ lastEvt'.op = "registrationFailed"
      /\ cs.connectionInfo.state = ConnectionState.DISCONNECTED
      /\ cs.isLoggedIn)
     => /\ cs' = cs
        /\ account' = account
        /\ lastEvt'.emitted = <<>>]_vars

\* C29 witness: a failure has been ignored on a client that is still logged
\* in, with its credentials and its keep-alive loop.
C29_Witness ==
  /\ lastEvt.op = "registrationFailed" /\ lastEvt.ret = "stale"
  /\ cs.connectionInfo.state = ConnectionState.DISCONNECTED
  /\ cs.isLoggedIn
  /\ cs.userName = "text" /\ cs.networkChangeInterval

\* C30 as claimed: when an address resolution of the network-change flow
\* succeeds, the network-change event is emitted and the retry counter is
\* reset to 0.
C30_Claimed_SuccessResetsCounter ==
  (lastEvt.op = "ipResolved" /\ lastEvt.ret = "address")
  => /\ lastEvt.emitted = <<"networkChange">>
     /\ lastEvt.postCount = 0
     /\ account.fetchIpCount = 0

\* C31 as claimed: every trigger of the network-change flow reaches a
\* terminal outcome, the event emitted or a give-up with the counter reset,
\* whatever the resolutions come back with; a failed attempt below the
\* ceiling schedules another one, and a trigger gets at most
\* IP_ADDRESS_FETCH_RETRY_COUNT attempts.
C31_Claimed_EveryTriggerTerminates ==
  /\ [](watch.attempts <= IP_ADDRESS_FETCH_RETRY_COUNT)
  /\ []((/\ lastEvt.op = "ipResolved" /\ lastEvt.ret # "address"
         /\ lastEvt.preCount < IP_ADDRESS_FETCH_RETRY_COUNT)
        => lastEvt.scheduled)
  /\ (watch.phase # "none")
       ~> (watch.phase = "none" /\ watch.outcome \in {"emitted", "gaveUp"})

\* C32 as claimed: the retry counter increases by exactly one per attempt,
\* the delay before the attempt that follows a failure is the counter times
\* 200 ms, and the successive delays of one trigger grow by 200 ms.
C32_Claimed_LinearBackoffPerTrigger ==
  [][/\ (/\ lastEvt' # lastEvt
         /\ \/ lastEvt'.op = "ipRetry"
            \/ lastEvt'.op = "registered" /\ lastEvt'.ret = "callNetworkChange")
        => account'.fetchIpCount = account.fetchIpCount + 1
     /\ (watch.phase = "fetch" /\ watch'.phase = "timer")
        => /\ lastEvt'.delay = 200 * account.fetchIpCount
           /\ watch.last # -1 => lastEvt'.delay = watch.last + 200]_vars

\* C33 as claimed: the initial address resolution is started at most once
\* per client, and once it is in flight its completion, whatever the
\* outcome, is followed by a recorded snapshot whose address is the empty
\* string unless an address came back.
C33_Claimed_InitialSnapshotRecorded ==
  /\ [][(lastEvt'.op = "connected" /\ net' # net) => ~net.didFetchInitial]_vars
  /\ (net.latest = "initial" \/ "initial" \in net.older)
       ~> (/\ lastEvt.op = "netInfoResolved"
           /\ lastEvt.kind = "initial"
           /\ lastEvt.wrote
           /\ lastEvt.ret # "address" => net.ip = "")

\* C34: after every connected event no reconnection-check timer is pending,
\* however many disconnected events, each of which starts a reconnection
\* check, came before it.
C34_ConnectedClearsRetryTimer ==
  lastEvt.op = "connected" => ~cs.connectionRetryInterval

C34_Witness ==
  /\ lastEvt.op = "connected"
  /\ lastEvt.timersCleared = 1
  /\ lastEvt.preUrlIndex = 2
  /\ ~cs.connectionRetryInterval

\* C35 as claimed: a non-ignored disconnected event that finds a primary
\* session schedules, once the new transport is created and started, exactly
\* one re-INVITE, which is sent with ICE restart on that session while the
\* reinvite counter increases by one; a disconnected event that finds no
\* primary session schedules none and leaves the counter; the counter never
\* decreases.
C35_Claimed_OneReInvitePerDisconnect ==
  [][/\ (/\ lastEvt'.op = "disconnected"
         /\ lastEvt' # lastEvt \/ reinviteTimers' # reinviteTimers)
        => /\ lastEvt'.reinvites
                = (IF ~lastEvt'.ignore /\ currentSession # Null THEN 1 ELSE 0)
           /\ lastEvt'.reinvites = 1 => lastEvt'.transportsCreated = 1
           /\ account'.reinviteCounter = account.reinviteCounter
     /\ Len(reinviteTimers') < Len(reinviteTimers)
        => /\ lastEvt'.op = "reInvite"
           /\ lastEvt'.reinvites = 1
           /\ lastEvt'.iceRestart
           /\ lastEvt'.session = lastEvt'.scheduledFor
           /\ account'.reinviteCounter = account.reinviteCounter + 1
     /\ account'.reinviteCounter >= account.reinviteCounter]_vars

\* C36 as claimed: the re-INVITE timer that finds no primary session, the
\* call having ended after the disconnect handler, sends nothing and throws
\* nothing.
C36_Claimed_TimerGuardsAbsentSession ==
  (lastEvt.op = "reInvite" /\ ~lastEvt.onCall)
  => (lastEvt.reinvites = 0 /\ ~lastEvt.threw)

\* C37: a registered event that follows a network change cancels the
\* keep-alive loop and starts a new one, with the on-call interval when a
\* primary session exists and the idle interval otherwise; without a primary
\* session the client is marked logged in and nothing of the fresh-login
\* path runs; with one, the telemetry transport that exists is disconnected,
\* exactly one new transport is created and the network-change flow is
\* triggered once.
C37_NetworkChangeRegistration ==
  (lastEvt.op = "registered"
   /\ lastEvt.ret \in {"idleNetworkChange", "callNetworkChange"})
  => /\ lastEvt.loopCancelled
     /\ cs.networkChangeInterval
     /\ lastEvt.loopStarted
          = (IF lastEvt.ret = "callNetworkChange" THEN "onCall" ELSE "idle")
     /\ lastEvt.ret = "idleNetworkChange"
        => /\ cs.isLoggedIn
           /\ lastEvt.emitted = <<"onConnectionChange">>
           /\ lastEvt.statsDisconnected = 0
           /\ lastEvt.statsCreated = 0
           /\ lastEvt.postCount = lastEvt.preCount
     /\ lastEvt.ret = "callNetworkChange"
        => /\ lastEvt.statsDisconnected = (IF lastEvt.preStats THEN 1 ELSE 0)
           /\ lastEvt.statsCreated = 1
           /\ lastEvt.postCount = lastEvt.preCount + 1

C37_Witness ==
  /\ lastEvt.op = "registered"
  /\ lastEvt.ret = "callNetworkChange"
  /\ lastEvt.loopStarted = "onCall"
  /\ lastEvt.preLoop
  /\ lastEvt.statsDisconnected = 1
  /\ lastEvt.statsCreated = 1

\* C38 as claimed: every start of the keep-alive loop comes after the loop
\* started before it has been cancelled, so that at most one loop is active.
C38_Claimed_OneKeepAliveLoop ==
  [][(/\ lastEvt'.op = "registered"
      /\ lastEvt' # lastEvt
      /\ lastEvt'.loopStarted # "none")
     => (~cs.networkChangeInterval \/ lastEvt'.loopCancelled)]_vars

\* C39 as claimed: the fresh-login registration emits onLogin whatever the
\* request for the telemetry credentials comes back with, and a request
\* that fails sets the cached call-insights key to null and does nothing
\* else: no event is emitted, and the logged-in flag and the connection
\* state stay as they are.
C39_Claimed_FailureClearsKeyOnly ==
  /\ []((lastEvt.op = "registered" /\ lastEvt.ret = "freshLogin")
        => lastEvt.emitted = <<"onConnectionChange", "onLogin">>)
  /\ [][(statsFetches' < statsFetches /\ lastEvt'.ret # "resolved")
        => /\ cs' = [cs EXCEPT !.callstatskey = "null"]
           /\ lastEvt'.emitted = <<>>]_vars

\* C40: every time a transport configuration is built, at login and at a
\* reconnect, the cursor that selects the endpoint is within the configured
\* endpoint list, also when an earlier Account has left the cursor where it
\* was and the list is not as long as at the previous use.
C40_CursorWithinEndpoints ==
  \A i \in DOMAIN lastEvt.cursors :
    /\ lastEvt.cursors[i] >= 0
    /\ lastEvt.cursors[i] < Len(wsServers)

C40_Witness ==
  /\ lastEvt.op = "disconnected"
  /\ lastEvt.uaCreated = 1
  /\ lastEvt.preUrlIndex = 2
  /\ Len(wsServers) = 1
  /\ lastEvt.cursors = <<0, 0>>

====
